---- MODULE Spec2Model ----
(***************************************************************************)
(* Tenant resolution, tenant context and connection pooling of the         *)
(* vritti api-sdk:                                                         *)
(*   - TenantContextService            (tenant-context.service.ts)         *)
(*   - MessageTenantContextInterceptor (message-tenant-context.interceptor)*)
(*   - TenantDatabaseService           (tenant-database.service.ts)        *)
(*   - PrimaryDatabaseService          (primary-database.service.ts)       *)
(*   - TenantResolverService           (tenant-resolver.service.ts)        *)
(*   - VrittiAuthGuard                 (vritti-auth.guard.ts)              *)
(*                                                                         *)
(* The specifications share the variables:                                 *)
(*   SpecCtx   the TenantContextService API called directly                *)
(*   SpecMsg   messages through the interceptor, handlers reading the      *)
(*             context and acquiring connections                           *)
(*   SpecReg   the tenant registry cache with its expiry timers            *)
(*   SpecPool  the connection pool: acquisition, idle sweep, shutdown      *)
(*   SpecGuard VrittiAuthGuard.canActivate with the registry behind it     *)
(***************************************************************************)
EXTENDS Integers, Sequences, FiniteSets, TLC

VARIABLES
    tenantInfo,        \* TenantContextService.tenantInfo
    last,              \* SpecCtx: the last API call, its argument and result
    lastOk,            \* SpecCtx: record of the last successful setTenant since the last clear
    msg,               \* SpecMsg: per message in flight: position, payload, observations
    clients,           \* TenantDatabaseService.clients      (cacheKey -> handle)
    clientLastUsed,    \* TenantDatabaseService.clientLastUsed (cacheKey -> time)
    builtFor,          \* handle -> the record its connection URL was built from
    now,               \* Date.now()
    tenantConfigCache, \* PrimaryDatabaseService.tenantConfigCache (identifier -> info object)
    timers,            \* pending setTimeout callbacks of cacheInfo
    primaryDbClient,   \* PrimaryDatabaseService.primaryDbClient: "unset" or "set"
    store,             \* the registry table: tenant id -> status
    storeUp,           \* whether the registry store answers queries
    objs,              \* info objects built so far: object id -> TenantInfo
    call,              \* SpecReg: per getTenantInfo call: position, identifier, outcome
    lastIns,           \* SpecReg: identifier -> latest cacheInfo insertion not invalidated since
    acq,               \* SpecPool: per getDbClient call: position, record, what it saw at its start
    served,            \* SpecPool: cacheKey -> handles returned for it since its last eviction
    disconnects,       \* handle -> state of the $disconnect() called on it
    cleanupInterval,   \* TenantDatabaseService.cleanupInterval: "set" or "cleared"
    destroy,           \* SpecPool: position of onModuleDestroy and the closes it awaits
    grd,               \* SpecGuard: the current or last canActivate: request and outcome
    ev,                \* SpecResolve: an argument and the value the function gave for it
    http               \* SpecHttp: the current request's pass through TenantContextInterceptor

vars == << tenantInfo, last, lastOk, msg, clients, clientLastUsed, builtFor, now,
           tenantConfigCache, timers, primaryDbClient, store, storeUp, objs, call,
           lastIns, acq, served, disconnects, cleanupInterval, destroy, grd,
           ev, http >>

ctxVars == << tenantInfo, last, lastOk >>
msgVars == << msg, clients, clientLastUsed, builtFor >>
regVars == << tenantConfigCache, timers, primaryDbClient, store, storeUp, objs, call,
              lastIns >>
poolVars == << acq, served, disconnects, cleanupInterval, destroy >>

(***************************************************************************)
(* Values                                                                  *)
(***************************************************************************)
\* JavaScript null and undefined
Null == [null |-> TRUE]
Undefined == "undefined"

\* TenantInfo: the fields the modelled code reads
TenantIds == {"t1", "t2"}
TenantTypes == {"SHARED", "DEDICATED"}
TenantStatuses == {"ACTIVE", "SUSPENDED"}
DatabaseHosts == {"h1", Undefined}
\* 0 stands for an absent (falsy) databasePort
DatabasePorts == {0, 5433}

\* subdomain of a tenant id in the registry table
SubdomainOf(id) == IF id = "t1" THEN "acme" ELSE "globex"

\* Records as they arrive in a payload or are built from the registry row.  A
\* SHARED record carries no host, database name, username or port; a DEDICATED
\* record carries them all but possibly the port.
TenantInfo ==
    { [id |-> i, subdomain |-> SubdomainOf(i), type |-> ty, status |-> st,
       databaseHost |-> h,
       databaseName |-> IF h = Undefined THEN Undefined ELSE "d1",
       databaseUsername |-> IF h = Undefined THEN Undefined ELSE "u1",
       databasePort |-> p] :
       i \in TenantIds, st \in TenantStatuses,
       <<ty, h, p>> \in { c \in TenantTypes \X DatabaseHosts \X DatabasePorts :
                            IF c[1] = "SHARED"
                            THEN c[2] = Undefined /\ c[3] = 0
                            ELSE c[2] # Undefined } }

\* thrown values
AlreadySetError == [error |-> "Error", message |-> "Tenant context already set for this request"]
NotSetError == [error |-> "UnauthorizedException", status |-> 401, message |-> "Tenant context not set"]
ConnectError == [error |-> "InternalServerErrorException", status |-> 500,
                 message |-> "Failed to connect to tenant database"]
ResolveError == [error |-> "InternalServerErrorException", status |-> 500,
                 message |-> "Failed to resolve tenant"]
Void == [void |-> TRUE]

IsError(v) == "error" \in DOMAIN v
IsTenant(v) == "id" \in DOMAIN v

(***************************************************************************)
(* TenantContextService: each method as a function of the field            *)
(* tenantInfo, giving the new field value and the value returned or thrown *)
(***************************************************************************)
\* fault variant: a second set with an equal record is accepted silently
setTenantIdempotent(ti, r) ==
    IF ti # Null /\ ti # r
    THEN [tenantInfo |-> ti, res |-> AlreadySetError]
    ELSE [tenantInfo |-> r, res |-> Void]

setTenant(ti, r) ==
    IF ti # Null
    THEN [tenantInfo |-> ti, res |-> AlreadySetError]
    ELSE [tenantInfo |-> r, res |-> Void]

\* fault variant: no guard, an empty context is returned as it is
getTenantUnchecked(ti) == ti

getTenant(ti) == IF ti = Null THEN NotSetError ELSE ti

hasTenant(ti) == ti # Null

\* fault variant: the field is left alone
clearTenantNoop(ti) == ti

clearTenant(ti) == Null

getTenantIdSafe(ti) == IF ti = Null THEN Null ELSE [value |-> ti.id]

(***************************************************************************)
(* SpecCtx: a caller invoking the TenantContextService methods in any order*)
(***************************************************************************)
NoCall == [op |-> "none", arg |-> Null, before |-> Null, res |-> Void]

DoSetTenant(r) ==
    LET s == setTenant(tenantInfo, r) IN
    /\ tenantInfo' = s.tenantInfo
    /\ last' = [op |-> "setTenant", arg |-> r, before |-> tenantInfo, res |-> s.res]
    /\ lastOk' = IF s.res = Void THEN r ELSE lastOk

DoGetTenant ==
    /\ last' = [op |-> "getTenant", arg |-> Null, before |-> tenantInfo,
                res |-> getTenant(tenantInfo)]
    /\ UNCHANGED << tenantInfo, lastOk >>

DoHasTenant ==
    /\ last' = [op |-> "hasTenant", arg |-> Null, before |-> tenantInfo,
                res |-> [value |-> hasTenant(tenantInfo)]]
    /\ UNCHANGED << tenantInfo, lastOk >>

DoClearTenant ==
    /\ tenantInfo' = clearTenant(tenantInfo)
    /\ last' = [op |-> "clearTenant", arg |-> Null, before |-> tenantInfo, res |-> Void]
    /\ lastOk' = Null

DoGetTenantIdSafe ==
    /\ last' = [op |-> "getTenantIdSafe", arg |-> Null, before |-> tenantInfo,
                res |-> getTenantIdSafe(tenantInfo)]
    /\ UNCHANGED << tenantInfo, lastOk >>


InitCtxVars ==
    /\ tenantInfo = Null
    /\ last = NoCall
    /\ lastOk = Null

(***************************************************************************)
(* TenantDatabaseService: pure helpers                                     *)
(***************************************************************************)
\* Field values are atomic tokens; the template literal is their concatenation
\* with the separators ':' and '@'.
buildCacheKey(tenant) ==
    << tenant.type, ":", tenant.databaseName, "@", tenant.databaseHost >>

DefaultPort == 5432

\* the connection URL, or the Error thrown when the configuration is missing
buildTenantDbUrl(tenant) ==
    IF \/ tenant.databaseHost = Undefined
       \/ tenant.databaseName = Undefined
       \/ tenant.databaseUsername = Undefined
    THEN [error |-> "Error", message |-> "missing database configuration"]
    ELSE [url |-> << "postgresql://", tenant.databaseUsername, "@", tenant.databaseHost, ":",
                     IF tenant.databasePort = 0 THEN DefaultPort ELSE tenant.databasePort,
                     "/", tenant.databaseName >>]

(***************************************************************************)
(* MessageTenantContextInterceptor and the handlers behind it              *)
(***************************************************************************)
MaxMsgs == 2        \* messages that arrive at the one interceptor instance
MaxNow == 1         \* clock ticks

Slots == 1..MaxMsgs
ContextTypes == {"rpc", "http"}

\* the context field after intercept's setup part: only 'rpc' payloads with a
\* tenant call setTenant, and an error thrown by setTenant is logged and dropped
interceptSetup(ti, contextType, tenant) ==
    IF contextType = "rpc" /\ tenant # Null
    THEN setTenant(ti, tenant).tenantInfo
    ELSE ti

\* fault variant: nothing is cleared
cleanupContextSkip(ti) == ti

cleanupContext(ti) == IF hasTenant(ti) THEN clearTenant(ti) ELSE ti

\* pc: "idle" not arrived, "handling" handler subscribed, "emitted" the stream has
\* emitted, "done" the stream has errored or completed.
\* tenant: payload.tenant of an 'rpc' message (Null when there is none).
\* isSet: its setTenant succeeded.  solo: no other message was in flight at any
\* moment since it arrived.  db/dbTenant: getDbClient awaiting createDbClient.
IdleMsg == [pc |-> "idle", tenant |-> Null, isSet |-> FALSE, solo |-> FALSE,
            db |-> "none", dbTenant |-> Null]

InFlight(s) == msg[s].pc \in {"handling", "emitted"}

\* intercept(context, next): set up the context and subscribe the handler
Intercept(s, contextType, tenant) ==
    /\ msg[s].pc = "idle"
    /\ \A u \in Slots : u < s => msg[u].pc # "idle"
    /\ tenantInfo' = interceptSetup(tenantInfo, contextType, tenant)
    /\ msg' = [t \in Slots |->
                 IF t = s
                 THEN [IdleMsg EXCEPT !.pc = "handling",
                                      !.tenant = IF contextType = "rpc" THEN tenant ELSE Null,
                                      !.isSet = (contextType = "rpc" /\ tenant # Null
                                                 /\ setTenant(tenantInfo, tenant).res = Void),
                                      !.solo = (\A u \in Slots \ {s} : ~InFlight(u))]
                 ELSE [msg[t] EXCEPT !.solo = FALSE]]
    /\ last' = [op |-> "intercept", slot |-> s]
    /\ UNCHANGED << clients, clientLastUsed, builtFor, now >>

\* the handler reads the context
HandlerGetTenant(s) ==
    /\ InFlight(s)
    /\ msg[s].db = "none"
    /\ last' = [op |-> "handler.getTenant", slot |-> s, res |-> getTenant(tenantInfo)]
    /\ UNCHANGED << tenantInfo, msg, clients, clientLastUsed, builtFor, now >>

\* getDbClient up to its await: context read, cache key, cache hit
GetDbClientStart(s) ==
    /\ InFlight(s)
    /\ msg[s].db = "none"
    /\ LET tenant == getTenant(tenantInfo) IN
       IF IsError(tenant)
       THEN /\ last' = [op |-> "getDbClient", slot |-> s, tenant |-> Null, res |-> tenant]
            /\ UNCHANGED << msg, clients, clientLastUsed >>
       ELSE LET cacheKey == buildCacheKey(tenant) IN
            IF cacheKey \in DOMAIN clients
            THEN /\ clientLastUsed' = [clientLastUsed EXCEPT ![cacheKey] = now]
                 /\ last' = [op |-> "getDbClient", slot |-> s, tenant |-> tenant,
                             res |-> [handle |-> clients[cacheKey]]]
                 /\ UNCHANGED << msg, clients >>
            ELSE /\ msg' = [msg EXCEPT ![s].db = "creating", ![s].dbTenant = tenant]
                 /\ last' = [op |-> "createDbClient", slot |-> s]
                 /\ UNCHANGED << clients, clientLastUsed >>
    /\ UNCHANGED << tenantInfo, builtFor, now >>

\* createDbClient resolves: the new client is stored and returned
GetDbClientCreated(s) ==
    /\ msg[s].db = "creating"
    /\ ~IsError(buildTenantDbUrl(msg[s].dbTenant))
    /\ LET tenant == msg[s].dbTenant
           cacheKey == buildCacheKey(tenant)
           client == Cardinality(DOMAIN builtFor) + 1
       IN /\ builtFor' = [h \in DOMAIN builtFor \cup {client} |->
                            IF h = client
                            THEN [id |-> tenant.id, url |-> buildTenantDbUrl(tenant).url]
                            ELSE builtFor[h]]
          /\ clients' = [k \in DOMAIN clients \cup {cacheKey} |->
                           IF k = cacheKey THEN client ELSE clients[k]]
          /\ clientLastUsed' = [k \in DOMAIN clientLastUsed \cup {cacheKey} |->
                                  IF k = cacheKey THEN now ELSE clientLastUsed[k]]
          /\ msg' = [msg EXCEPT ![s].db = "none", ![s].dbTenant = Null]
          /\ last' = [op |-> "getDbClient", slot |-> s, tenant |-> tenant,
                      res |-> [handle |-> client]]
    /\ UNCHANGED << tenantInfo, now >>

\* createDbClient rejects: missing configuration or $connect failure
GetDbClientFailed(s) ==
    /\ msg[s].db = "creating"
    /\ msg' = [msg EXCEPT ![s].db = "none", ![s].dbTenant = Null]
    /\ last' = [op |-> "getDbClient", slot |-> s, tenant |-> msg[s].dbTenant,
                res |-> ConnectError]
    /\ UNCHANGED << tenantInfo, clients, clientLastUsed, builtFor, now >>

\* tap.next: the handler stream emits a value
StreamNext(s) ==
    /\ InFlight(s)
    /\ msg[s].db = "none"
    /\ tenantInfo' = cleanupContext(tenantInfo)
    /\ msg' = [msg EXCEPT ![s].pc = "emitted"]
    /\ last' = [op |-> "next", slot |-> s]
    /\ UNCHANGED << clients, clientLastUsed, builtFor, now >>

\* fault variant: tap without an error callback
StreamErrorNoCleanup(s) ==
    /\ InFlight(s)
    /\ msg[s].db = "none"
    /\ msg' = [msg EXCEPT ![s].pc = "done"]
    /\ last' = [op |-> "error", slot |-> s]
    /\ UNCHANGED << tenantInfo, clients, clientLastUsed, builtFor, now >>

\* tap.error: the handler stream fails
StreamError(s) ==
    /\ InFlight(s)
    /\ msg[s].db = "none"
    /\ tenantInfo' = cleanupContext(tenantInfo)
    /\ msg' = [msg EXCEPT ![s].pc = "done"]
    /\ last' = [op |-> "error", slot |-> s]
    /\ UNCHANGED << clients, clientLastUsed, builtFor, now >>

\* tap.complete: the handler stream completes
StreamComplete(s) ==
    /\ InFlight(s)
    /\ msg[s].db = "none"
    /\ tenantInfo' = cleanupContext(tenantInfo)
    /\ msg' = [msg EXCEPT ![s].pc = "done"]
    /\ last' = [op |-> "complete", slot |-> s]
    /\ UNCHANGED << clients, clientLastUsed, builtFor, now >>

Tick ==
    /\ now < MaxNow
    /\ now' = now + 1
    /\ last' = NoCall
    /\ UNCHANGED << tenantInfo, msg, clients, clientLastUsed, builtFor >>

InitMsgVars ==
    /\ msg = [s \in Slots |-> IdleMsg]
    /\ clients = << >>
    /\ clientLastUsed = << >>
    /\ builtFor = << >>

(***************************************************************************)
(* PrimaryDatabaseService (tenant registry)                                *)
(***************************************************************************)
MaxCalls == 2       \* overlapping getTenantInfo calls
MaxObjs == 2        \* info objects built by getTenantInfo
MaxTime == 2        \* clock ticks

\* options.connectionCacheTTL || 300000, in clock ticks
cacheTTL == 2

CallSlots == 1..MaxCalls
IdleCall == [pc |-> "idle", identifier |-> "nope", win |-> Null, expired |-> FALSE]
Subdomains == { SubdomainOf(i) : i \in TenantIds }
Identifiers == TenantIds \cup Subdomains \cup {"nope"}

InitError == [error |-> "InternalServerErrorException", status |-> 500,
              message |-> "Failed to initialize tenant registry"]

\* the row of tenant i joined with its databaseConfig, as findFirst returns it
RegistryRow(i) ==
    [id |-> i, subdomain |-> SubdomainOf(i), type |-> "DEDICATED", status |-> store[i],
     databaseHost |-> "h1", databaseName |-> "d1", databaseUsername |-> "u1",
     databasePort |-> 0]

\* tenant.findFirst({ where: { OR: [{id}, {subdomain}], status: 'ACTIVE' } }):
\* the promise rejects when the store does not answer, otherwise it resolves to
\* the matching row or to null
findFirst(tenantIdentifier) ==
    IF ~storeUp THEN [rejected |-> TRUE]
    ELSE LET m == { i \in TenantIds : /\ i = tenantIdentifier \/ SubdomainOf(i) = tenantIdentifier
                                      /\ store[i] = "ACTIVE" }
         IN IF m = {} THEN [row |-> Null] ELSE [row |-> RegistryRow(CHOOSE i \in m : TRUE)]

\* fault variant: a failed query is reported as not-found
afterQueryNullOnError(answer) ==
    IF "rejected" \in DOMAIN answer THEN "null"
    ELSE IF answer.row = Null THEN "null" ELSE "info"

\* what getTenantInfo does with the outcome of the query: throw the
\* InternalServerErrorException, return null, or build, cache and return the info
afterQuery(answer) ==
    IF "rejected" \in DOMAIN answer THEN "throw"
    ELSE IF answer.row = Null THEN "null" ELSE "info"

Cached(k) == k \in DOMAIN tenantConfigCache

\* Map.delete of a set of keys
MapDelete(m, ks) == [k \in DOMAIN m \ ks |-> m[k]]
\* Map.set of the keys ks to the value v
MapSet(m, ks, v) == [k \in DOMAIN m \cup ks |-> IF k \in ks THEN v ELSE m[k]]

\* the window of the latest insertion under key k that no invalidation removed:
\* its object while now is before insertion + TTL, Null otherwise
Window(k) ==
    IF k \in DOMAIN lastIns /\ lastIns[k].live /\ now < lastIns[k].at + cacheTTL
    THEN [obj |-> lastIns[k].obj] ELSE Null

\* fault variant: a failed $connect is logged and onModuleInit completes
OnModuleInitSwallow(hasPrimaryDb) ==
    /\ primaryDbClient = "unset"
    /\ \A c \in CallSlots : call[c].pc = "idle"
    /\ primaryDbClient' = IF hasPrimaryDb THEN "set" ELSE primaryDbClient
    /\ last' = [op |-> "onModuleInit", res |-> Void]
    /\ UNCHANGED << tenantConfigCache, timers, store, storeUp, objs, call, lastIns, now >>

\* onModuleInit: the client is assigned before $connect is awaited
OnModuleInit(hasPrimaryDb) ==
    /\ primaryDbClient = "unset"
    /\ \A c \in CallSlots : call[c].pc = "idle"
    /\ IF hasPrimaryDb
       THEN /\ primaryDbClient' = "set"
            /\ last' = [op |-> "onModuleInit", res |-> IF storeUp THEN Void ELSE InitError]
       ELSE /\ UNCHANGED primaryDbClient
            /\ last' = [op |-> "onModuleInit", res |-> Void]
    /\ UNCHANGED << tenantConfigCache, timers, store, storeUp, objs, call, lastIns, now >>

\* getTenantInfo up to its await: cache lookup, client check, query issued
GetTenantInfoStart(c, tenantIdentifier) ==
    /\ call[c].pc = "idle"
    /\ LET win == Window(tenantIdentifier)
           expired == tenantIdentifier \in DOMAIN lastIns /\ ~lastIns[tenantIdentifier].live
       IN
       IF Cached(tenantIdentifier)
       THEN /\ last' = [op |-> "getTenantInfo", identifier |-> tenantIdentifier, hit |-> TRUE,
                        res |-> [obj |-> tenantConfigCache[tenantIdentifier]],
                        win |-> win, expired |-> expired, queries |-> 0, answer |-> "none"]
            /\ UNCHANGED call
       ELSE IF primaryDbClient = "unset"
       THEN /\ last' = [op |-> "getTenantInfo", identifier |-> tenantIdentifier, hit |-> FALSE,
                        res |-> ResolveError,
                        win |-> win, expired |-> expired, queries |-> 0, answer |-> "uninit"]
            /\ UNCHANGED call
       ELSE /\ call' = [call EXCEPT ![c] = [pc |-> "querying", identifier |-> tenantIdentifier,
                                             win |-> win, expired |-> expired]]
            /\ last' = [op |-> "findFirst", identifier |-> tenantIdentifier, hit |-> FALSE,
                        res |-> Void,
                        win |-> win, expired |-> expired, queries |-> 1, answer |-> "pending"]
    /\ UNCHANGED << tenantConfigCache, timers, primaryDbClient, store, storeUp, objs,
                    lastIns, now >>

\* cacheInfo(info): both keys, and the expiry timer
cacheInfo(cache, info) == MapSet(cache, {objs'[info].id, objs'[info].subdomain}, info)

\* getTenantInfo after the await: the query has settled
GetTenantInfoFinish(c) ==
    /\ call[c].pc = "querying"
    /\ LET tenantIdentifier == call[c].identifier
           answer == findFirst(tenantIdentifier)
           todo == afterQuery(answer)
           info == Len(objs) + 1
           said == IF "rejected" \in DOMAIN answer THEN "failed"
                   ELSE IF answer.row = Null THEN "notfound" ELSE "found"
           done(res) == [op |-> "getTenantInfo", identifier |-> tenantIdentifier,
                         hit |-> FALSE, res |-> res, win |-> call[c].win,
                         expired |-> call[c].expired, queries |-> 1, answer |-> said]
       IN
       /\ todo = "info" => Len(objs) < MaxObjs
       /\ IF todo = "info"
          THEN /\ objs' = Append(objs, answer.row)
               /\ tenantConfigCache' = cacheInfo(tenantConfigCache, info)
               /\ timers' = timers \cup {[at |-> now + cacheTTL, obj |-> info,
                                          id |-> answer.row.id,
                                          subdomain |-> answer.row.subdomain]}
               /\ lastIns' = MapSet(lastIns, {answer.row.id, answer.row.subdomain},
                                    [obj |-> info, at |-> now, live |-> TRUE,
                                     by |-> tenantIdentifier])
               /\ last' = done([obj |-> info])
          ELSE /\ last' = done(IF todo = "throw" THEN ResolveError ELSE Null)
               /\ UNCHANGED << objs, tenantConfigCache, timers, lastIns >>
    /\ call' = [call EXCEPT ![c] = IdleCall]
    /\ UNCHANGED << primaryDbClient, store, storeUp, now >>

\* the setTimeout callback of one cacheInfo call
TimerFire(t) ==
    /\ t \in timers
    /\ t.at <= now
    /\ timers' = timers \ {t}
    /\ tenantConfigCache' = MapDelete(tenantConfigCache, {t.id, t.subdomain})
    /\ lastIns' = [k \in DOMAIN lastIns |->
                     IF k \in {t.id, t.subdomain} /\ lastIns[k].obj = t.obj
                     THEN [lastIns[k] EXCEPT !.live = FALSE] ELSE lastIns[k]]
    /\ last' = [op |-> "timer", obj |-> t.obj]
    /\ UNCHANGED << primaryDbClient, store, storeUp, objs, call, now >>

\* the keys clearTenantCache(tenantIdentifier) is to invalidate
KeysOf(tenantIdentifier) ==
    IF Cached(tenantIdentifier)
    THEN {objs[tenantConfigCache[tenantIdentifier]].id,
          objs[tenantConfigCache[tenantIdentifier]].subdomain}
    ELSE {}

\* fault variant: only the key that was passed is deleted
clearTenantCacheOneKey(tenantIdentifier) ==
    /\ tenantConfigCache' = MapDelete(tenantConfigCache, {tenantIdentifier})
    /\ lastIns' = MapDelete(lastIns, KeysOf(tenantIdentifier))
    /\ last' = [op |-> "clearTenantCache", identifier |-> tenantIdentifier,
                before |-> tenantConfigCache]
    /\ UNCHANGED << timers, primaryDbClient, store, storeUp, objs, call, now >>

clearTenantCache(tenantIdentifier) ==
    /\ tenantConfigCache' = MapDelete(tenantConfigCache, KeysOf(tenantIdentifier))
    /\ lastIns' = MapDelete(lastIns, KeysOf(tenantIdentifier))
    /\ last' = [op |-> "clearTenantCache", identifier |-> tenantIdentifier,
                before |-> tenantConfigCache]
    /\ UNCHANGED << timers, primaryDbClient, store, storeUp, objs, call, now >>

clearAllCaches ==
    /\ tenantConfigCache' = << >>
    /\ lastIns' = << >>
    /\ last' = [op |-> "clearAllCaches"]
    /\ UNCHANGED << timers, primaryDbClient, store, storeUp, objs, call, now >>

\* the tenant-management plane changes a tenant's status
StoreUpdate(i, st) ==
    /\ store[i] # st
    /\ store' = [store EXCEPT ![i] = st]
    /\ last' = NoCall
    /\ UNCHANGED << tenantConfigCache, timers, primaryDbClient, storeUp, objs, call,
                    lastIns, now >>

\* the registry store becomes unreachable or reachable again
StoreFlip ==
    /\ storeUp' = ~storeUp
    /\ last' = NoCall
    /\ UNCHANGED << tenantConfigCache, timers, primaryDbClient, store, objs, call,
                    lastIns, now >>

\* time passes; a due timer fires before the clock moves on
TickReg ==
    /\ now < MaxTime
    /\ \A t \in timers : t.at > now
    /\ now' = now + 1
    /\ last' = NoCall
    /\ UNCHANGED << tenantConfigCache, timers, primaryDbClient, store, storeUp, objs,
                    call, lastIns >>

InitRegVars ==
    /\ tenantConfigCache = << >>
    /\ timers = {}
    /\ primaryDbClient = "unset"
    /\ store = [i \in TenantIds |-> "ACTIVE"]
    /\ storeUp = TRUE
    /\ objs = << >>
    /\ call = [c \in CallSlots |-> IdleCall]
    /\ lastIns = << >>

(***************************************************************************)
(* TenantDatabaseService: the pool, its idle sweep and its shutdown        *)
(***************************************************************************)
MaxAcqs == 2        \* overlapping getDbClient calls
MaxBuilds == 3      \* connections built
MaxPoolNow == 3     \* clock ticks

AcqSlots == 1..MaxAcqs

PoolTenant(i, ty, h, d) ==
    [id |-> i, subdomain |-> SubdomainOf(i), type |-> ty, status |-> "ACTIVE",
     databaseHost |-> h, databaseName |-> d,
     databaseUsername |-> IF h = Undefined THEN Undefined ELSE "u1",
     databasePort |-> 0]

\* the records in the contexts of the callers: two tenants on the same database,
\* one tenant on a second database, one record without database configuration
PoolTenants ==
    { PoolTenant("t1", "DEDICATED", "h1", "d1"),
      PoolTenant("t2", "DEDICATED", "h1", "d1"),
      PoolTenant("t2", "DEDICATED", "h1", "d2"),
      PoolTenant("t1", "SHARED", Undefined, Undefined) }

\* options.connectionCacheTTL || 300000, in clock ticks
maxIdle == cacheTTL

\* fault variant: an entry is idle from the threshold on
isIdleFromThreshold(t, lastUsed) == t - lastUsed >= maxIdle

\* the test of cleanupIdleConnections
isIdle(t, lastUsed) == t - lastUsed > maxIdle

IdleAcq == [pc |-> "idle", tenant |-> Null, prev |-> {}, since |-> 0]

PoolSnapshot == [clients |-> clients, clientLastUsed |-> clientLastUsed]
Served(k) == IF k \in DOMAIN served THEN served[k] ELSE {}
Handles(m) == { m[k] : k \in DOMAIN m }
Creating == { c \in AcqSlots : acq[c].pc = "creating" }

\* getDbClient up to its await.  ti is the context of the calling unit of work.
AcquireStart(c, ti) ==
    /\ acq[c].pc = "idle"
    /\ LET tenant == getTenant(ti) IN
       IF IsError(tenant)
       THEN /\ last' = [op |-> "getDbClient", call |-> c, hit |-> FALSE, res |-> tenant,
                        cause |-> "context", before |-> PoolSnapshot]
            /\ UNCHANGED << acq, clientLastUsed, served >>
       ELSE LET cacheKey == buildCacheKey(tenant) IN
            IF cacheKey \in DOMAIN clients
            THEN /\ clientLastUsed' = [clientLastUsed EXCEPT ![cacheKey] = now]
                 /\ served' = MapSet(served, {cacheKey},
                                     Served(cacheKey) \cup {clients[cacheKey]})
                 /\ last' = [op |-> "getDbClient", call |-> c, hit |-> TRUE,
                             res |-> [handle |-> clients[cacheKey]], key |-> cacheKey,
                             prev |-> Served(cacheKey), since |-> Cardinality(DOMAIN builtFor),
                             before |-> PoolSnapshot]
                 /\ UNCHANGED acq
            ELSE /\ Cardinality(DOMAIN builtFor) + Cardinality(Creating) < MaxBuilds
                 /\ acq' = [acq EXCEPT ![c] = [pc |-> "creating", tenant |-> tenant,
                                               prev |-> Served(cacheKey),
                                               since |-> Cardinality(DOMAIN builtFor)]]
                 /\ last' = [op |-> "createDbClient", call |-> c, key |-> cacheKey,
                             before |-> PoolSnapshot]
                 /\ UNCHANGED << clientLastUsed, served >>
    /\ UNCHANGED << clients, builtFor, disconnects, cleanupInterval, destroy, now >>

\* createDbClient resolves: the new client is stored under the key and returned
AcquireCreated(c) ==
    /\ acq[c].pc = "creating"
    /\ ~IsError(buildTenantDbUrl(acq[c].tenant))
    /\ LET tenant == acq[c].tenant
           cacheKey == buildCacheKey(tenant)
           client == Cardinality(DOMAIN builtFor) + 1
       IN /\ builtFor' = MapSet(builtFor, {client},
                                [id |-> tenant.id, url |-> buildTenantDbUrl(tenant).url,
                                 key |-> cacheKey])
          /\ clients' = MapSet(clients, {cacheKey}, client)
          /\ clientLastUsed' = MapSet(clientLastUsed, {cacheKey}, now)
          /\ served' = MapSet(served, {cacheKey}, Served(cacheKey) \cup {client})
          /\ last' = [op |-> "getDbClient", call |-> c, hit |-> FALSE,
                      res |-> [handle |-> client], key |-> cacheKey,
                      prev |-> acq[c].prev, since |-> acq[c].since,
                      before |-> PoolSnapshot]
    /\ acq' = [acq EXCEPT ![c] = IdleAcq]
    /\ UNCHANGED << disconnects, cleanupInterval, destroy, now >>

\* fault variant: the failed client is stored under the key
AcquireFailedCaching(c) ==
    /\ acq[c].pc = "creating"
    /\ LET cacheKey == buildCacheKey(acq[c].tenant) IN
       /\ clients' = MapSet(clients, {cacheKey}, 0)
       /\ clientLastUsed' = MapSet(clientLastUsed, {cacheKey}, now)
       /\ last' = [op |-> "getDbClient", call |-> c, hit |-> FALSE, res |-> ConnectError,
                   cause |-> IF IsError(buildTenantDbUrl(acq[c].tenant))
                             THEN "config" ELSE "connect",
                   key |-> cacheKey, before |-> PoolSnapshot]
    /\ acq' = [acq EXCEPT ![c] = IdleAcq]
    /\ UNCHANGED << served, builtFor, disconnects, cleanupInterval, destroy, now >>

\* createDbClient rejects: buildTenantDbUrl threw, or the constructor promise or
\* $connect failed; the catch turns each into the InternalServerErrorException
AcquireFailed(c) ==
    /\ acq[c].pc = "creating"
    /\ last' = [op |-> "getDbClient", call |-> c, hit |-> FALSE, res |-> ConnectError,
                cause |-> IF IsError(buildTenantDbUrl(acq[c].tenant))
                          THEN "config" ELSE "connect",
                key |-> buildCacheKey(acq[c].tenant), before |-> PoolSnapshot]
    /\ acq' = [acq EXCEPT ![c] = IdleAcq]
    /\ UNCHANGED << clients, clientLastUsed, served, builtFor, disconnects,
                    cleanupInterval, destroy, now >>

\* the setInterval callback: every idle entry is disconnected (not awaited) and
\* removed from both maps
cleanupIdleConnections ==
    /\ cleanupInterval = "set"
    /\ LET idle == { key \in DOMAIN clientLastUsed :
                        isIdle(now, clientLastUsed[key]) /\ key \in DOMAIN clients }
       IN /\ disconnects' = MapSet(disconnects, { clients[key] : key \in idle }, "pending")
          /\ clients' = MapDelete(clients, idle)
          /\ clientLastUsed' = MapDelete(clientLastUsed, idle)
          /\ served' = MapDelete(served, idle)
          /\ last' = [op |-> "cleanupIdleConnections", cleaned |-> Cardinality(idle),
                      before |-> PoolSnapshot]
    /\ UNCHANGED << acq, builtFor, cleanupInterval, destroy, now >>

\* fault variant: a rejected $disconnect() is not caught and stops the timer loop
DisconnectSettleUncaught(h, ok) ==
    /\ h \in DOMAIN disconnects
    /\ disconnects[h] = "pending"
    /\ disconnects' = [disconnects EXCEPT ![h] = IF ok THEN "done" ELSE "failed"]
    /\ cleanupInterval' = IF ok THEN cleanupInterval ELSE "cleared"
    /\ last' = [op |-> "$disconnect", handle |-> h]
    /\ UNCHANGED << acq, clients, clientLastUsed, served, builtFor, destroy, now >>

\* a $disconnect() promise settles; a rejection is caught and logged
DisconnectSettle(h, ok) ==
    /\ h \in DOMAIN disconnects
    /\ disconnects[h] = "pending"
    /\ disconnects' = [disconnects EXCEPT ![h] = IF ok THEN "done" ELSE "failed"]
    /\ last' = [op |-> "$disconnect", handle |-> h]
    /\ UNCHANGED << acq, clients, clientLastUsed, served, builtFor, cleanupInterval,
                    destroy, now >>

\* fault variant: the interval is left running
OnModuleDestroyKeepInterval ==
    /\ destroy.pc = "none"
    /\ disconnects' = MapSet(disconnects, Handles(clients), "pending")
    /\ destroy' = [pc |-> "awaiting", closes |-> Handles(clients)]
    /\ last' = [op |-> "onModuleDestroy.start", before |-> PoolSnapshot]
    /\ UNCHANGED << acq, clients, clientLastUsed, served, builtFor, cleanupInterval, now >>

\* onModuleDestroy up to its await: the interval is cleared and $disconnect()
\* is called on every entry of clients
OnModuleDestroy ==
    /\ destroy.pc = "none"
    /\ cleanupInterval' = "cleared"
    /\ disconnects' = MapSet(disconnects, Handles(clients), "pending")
    /\ destroy' = [pc |-> "awaiting", closes |-> Handles(clients)]
    /\ last' = [op |-> "onModuleDestroy.start", before |-> PoolSnapshot]
    /\ UNCHANGED << acq, clients, clientLastUsed, served, builtFor, now >>

\* Promise.all resolves once every disconnect has settled; a failed one was
\* caught and logged, so the method returns normally
OnModuleDestroyReturn ==
    /\ destroy.pc = "awaiting"
    /\ \A h \in destroy.closes : disconnects[h] # "pending"
    /\ destroy' = [destroy EXCEPT !.pc = "returned"]
    /\ last' = [op |-> "onModuleDestroy", res |-> Void]
    /\ UNCHANGED << acq, clients, clientLastUsed, served, builtFor, disconnects,
                    cleanupInterval, now >>

PoolTick ==
    /\ now < MaxPoolNow
    /\ now' = now + 1
    /\ last' = NoCall
    /\ UNCHANGED << acq, clients, clientLastUsed, served, builtFor, disconnects,
                    cleanupInterval, destroy >>

\* the constructor starts the cleaner
InitPoolVars ==
    /\ acq = [c \in AcqSlots |-> IdleAcq]
    /\ served = << >>
    /\ disconnects = << >>
    /\ cleanupInterval = "set"
    /\ destroy = [pc |-> "none", closes |-> {}]

(***************************************************************************)
(* TenantResolverService and extractSubdomain                              *)
(***************************************************************************)
\* JavaScript null where a string is expected
Nil == "null"
Falsy(s) == s \in {Nil, Undefined, ""}

\* A string that is parsed is the sequence of its pieces: words (runs of
\* characters without separator) and the separators "." and ":".  The empty
\* sequence is the empty string and stands for an absent (undefined) host as
\* well: both are falsy.
Words == {"acme", "cloud"}
Separators == {".", ":"}
MaxHostLen == 7

\* the host strings of at most MaxHostLen pieces; two words never touch, they
\* would be one word
HostStrings ==
    { h \in UNION { [1..n -> Words \cup Separators] : n \in 0..MaxHostLen } :
        \A i \in 1..(Len(h) - 1) : ~(h[i] \in Words /\ h[i + 1] \in Words) }

\* String.prototype.split(sep): the pieces between the separators, each a
\* sequence itself; a string without separator gives one piece
RECURSIVE split(_, _)
split(s, sep) ==
    IF s = << >> THEN << << >> >>
    ELSE LET rest == split(Tail(s), sep) IN
         IF Head(s) = sep THEN << << >> >> \o rest
         ELSE << << Head(s) >> \o Head(rest) >> \o Tail(rest)

\* the string of a piece: '' or its word
text(piece) == IF piece = << >> THEN "" ELSE piece[1]

\* fault variant: the labels are counted with the port still attached
extractSubdomainKeepPort(host) ==
    IF host = << >> THEN Nil
    ELSE LET parts == split(host, ".") IN
         IF Len(parts) < 3 THEN Nil ELSE text(parts[1])

extractSubdomain(host) ==
    IF host = << >> THEN Nil
    ELSE LET hostname == split(host, ":")[1] IN
         IF hostname = << >> THEN Nil
         ELSE LET parts == split(hostname, ".") IN
              IF Len(parts) < 3 THEN Nil ELSE text(parts[1])

extractFromHeaders(request) ==
    IF ~Falsy(request.xTenantId) THEN request.xTenantId
    ELSE IF ~Falsy(request.xSubdomain) THEN request.xSubdomain
    ELSE Nil

\* fault variant: the headers are consulted before the host
resolveTenantIdentifierHeadersFirst(request) ==
    LET tenantIdentifier == extractFromHeaders(request) IN
    IF Falsy(tenantIdentifier) THEN extractSubdomain(request.host) ELSE tenantIdentifier

resolveTenantIdentifier(request) ==
    LET tenantIdentifier == extractSubdomain(request.host) IN
    IF Falsy(tenantIdentifier) THEN extractFromHeaders(request) ELSE tenantIdentifier

\* the parts of a request the resolver reads; a header is absent, empty or set
ResolverRequests ==
    [host : HostStrings, xTenantId : {Undefined, "", "t2"},
     xSubdomain : {Undefined, "", "globex"}]

NoEval == [op |-> "none"]

\* a caller invoking resolveTenantIdentifier on a request
ResolveTenantIdentifier ==
    /\ ev.op = "request"
    /\ ev' = [op |-> "resolveTenantIdentifier", request |-> ev.request,
              res |-> resolveTenantIdentifier(ev.request)]

\* a caller invoking extractSubdomain on a host string and on the same string
\* followed by ':' and a port
ExtractSubdomain ==
    /\ ev.op = "host"
    /\ ev' = [op |-> "extractSubdomain", host |-> ev.host, port |-> ev.port,
              res |-> extractSubdomain(ev.host),
              resWithPort |-> extractSubdomain(ev.host \o << ":", ev.port >>)]

InitEvVars == ev = NoEval

(***************************************************************************)
(* BaseFieldException and the exception classes built on it               *)
(***************************************************************************)
\* JavaScript values with their typeof: strings, arrays of FieldError, numbers
\* (HttpStatus) and undefined
Str(s) == [t |-> "string", v |-> s]
Arr(a) == [t |-> "array", items |-> a]
Num(n) == [t |-> "number", n |-> n]
Undef == [t |-> "undefined"]
Truthy(x) == (x.t = "string" /\ x.v # "") \/ x.t = "array" \/ (x.t = "number" /\ x.n # 0)

\* the classes and the HttpStatus each passes to super
ExceptionClasses ==
    { [name |-> "BadRequestException", status |-> 400],
      [name |-> "UnauthorizedException", status |-> 401],
      [name |-> "ForbiddenException", status |-> 403],
      [name |-> "NotFoundException", status |-> 404],
      [name |-> "MethodNotAllowedException", status |-> 405],
      [name |-> "NotAcceptableException", status |-> 406],
      [name |-> "RequestTimeoutException", status |-> 408],
      [name |-> "ConflictException", status |-> 409],
      [name |-> "GoneException", status |-> 410],
      [name |-> "PayloadTooLargeException", status |-> 413],
      [name |-> "UnsupportedMediaTypeException", status |-> 415],
      [name |-> "UnprocessableEntityException", status |-> 422],
      [name |-> "TooManyRequestsException", status |-> 429],
      [name |-> "InternalServerErrorException", status |-> 500],
      [name |-> "NotImplementedException", status |-> 501],
      [name |-> "BadGatewayException", status |-> 502],
      [name |-> "ServiceUnavailableException", status |-> 503],
      [name |-> "ValidationException", status |-> 400] }

\* HttpStatus.BAD_REQUEST, the default of the array form
BAD_REQUEST == 400

\* the exception built: getStatus() and getResponse()
HttpException(response, httpStatus) == [response |-> response, status |-> httpStatus]

BaseFieldException(statusOrMessageOrErrors, messageOrStatus, statusOrDetail, detail) ==
    LET branch ==
            IF statusOrMessageOrErrors.t = "array" THEN "errors"
            ELSE IF statusOrMessageOrErrors.t = "string" /\ messageOrStatus.t = "string"
            THEN "field"
            ELSE IF statusOrMessageOrErrors.t = "string" THEN "message"
            ELSE "status"
        errors ==
            CASE branch = "errors" -> statusOrMessageOrErrors.items
              [] branch = "field" ->
                    << [field |-> statusOrMessageOrErrors.v, message |-> messageOrStatus.v] >>
              [] branch = "message" -> << [message |-> statusOrMessageOrErrors.v] >>
              [] OTHER -> << [message |-> "An error occurred"] >>
        httpStatus ==
            CASE branch = "errors" ->
                    IF Truthy(messageOrStatus) THEN messageOrStatus ELSE Num(BAD_REQUEST)
              [] branch = "field" -> statusOrDetail
              [] branch = "message" -> messageOrStatus
              [] OTHER -> statusOrMessageOrErrors
        finalDetail ==
            CASE branch = "field" -> detail
              [] branch \in {"errors", "message"} ->
                    IF statusOrDetail.t = "string" THEN statusOrDetail ELSE Undef
              [] OTHER -> Undef
    IN  HttpException(IF finalDetail # Undef
                      THEN [errors |-> errors, detail |-> finalDetail]
                      ELSE [errors |-> errors],
                      httpStatus)

\* the constructor the classes share, each with its own HttpStatus
FieldException(status, messageOrField, fieldMessageOrDetail, detail) ==
    IF messageOrField.t = "array"
    THEN BaseFieldException(messageOrField, Num(status), fieldMessageOrDetail, Undef)
    ELSE IF detail # Undef
    THEN BaseFieldException(messageOrField, fieldMessageOrDetail, Num(status), detail)
    ELSE IF Truthy(fieldMessageOrDetail)
    THEN BaseFieldException(messageOrField, fieldMessageOrDetail, Num(status), Undef)
    ELSE BaseFieldException(messageOrField, Num(status), Undef, Undef)

ValidationException(errors, detail) ==
    BaseFieldException(errors, Num(BAD_REQUEST), detail, Undef)

\* the strings and the arrays passed to the constructors
Texts == {"", "email", "Invalid email"}
FieldErrors == [message : Texts \ {""}] \cup [field : {"email"}, message : Texts \ {""}]
ErrorArrays == { << >> } \cup { << e >> : e \in FieldErrors }
                   \cup { << [field |-> "email", message |-> "Invalid email"], e >> :
                            e \in FieldErrors }

\* what TypeScript lets a caller pass: new Class(a1), new Class(a1, a2) or
\* new Class(a1, a2, a3); ValidationException takes (errors) or (errors, detail)
ConstructorCalls ==
    { c \in [cls : ExceptionClasses,
              a1 : { Str(x) : x \in Texts } \cup { Arr(a) : a \in ErrorArrays },
              a2 : { Str(x) : x \in Texts } \cup {Undef},
              a3 : { Str(x) : x \in Texts } \cup {Undef}] :
        c.cls.name = "ValidationException" => c.a1.t = "array" /\ c.a3 = Undef }

\* new Class(...args)
Construct ==
    /\ ev.op = "new"
    /\ ev' = [op |-> "constructed", cls |-> ev.cls, a1 |-> ev.a1, a2 |-> ev.a2, a3 |-> ev.a3,
              exc |-> IF ev.cls.name = "ValidationException"
                      THEN ValidationException(ev.a1, ev.a2)
                      ELSE FieldException(ev.cls.status, ev.a1, ev.a2, ev.a3)]

(***************************************************************************)
(* VrittiAuthGuard                                                         *)
(***************************************************************************)
\* handler metadata set by @Public() and @Onboarding()
Handlers == [isPublic : BOOLEAN, isOnboarding : BOOLEAN]

\* A token is what decoding and verifying it give: its payload claims, and the
\* outcome of verify ("ok" or the name of the error jsonwebtoken throws).  A
\* malformed token does not decode; on a crashing token (three well-formed
\* segments, a payload that is not JSON) decode itself throws.
TokenTypes == {"access", "onboarding", Undefined}
VerifyOutcomes == {"ok", "TokenExpiredError", "JsonWebTokenError"}
Malformed == [malformed |-> TRUE]
Crashing == [crashing |-> TRUE]
AccessTokens ==
    {Malformed, Crashing} \cup [type : TokenTypes, userId : {"u1"}, verify : VerifyOutcomes]
RefreshTokens == [verify : {"ok", "TokenExpiredError"}]

Hosts == { << >>,
           << "acme", ".", "vritti", ".", "com" >>,
           << "cloud", ".", "vritti", ".", "com", ":", "3000" >> }

\* the Authorization header, the cloud-session-id cookie, the host and the
\* tenant headers of a request
Requests ==
    [authorization : {Null, [scheme |-> "Basic", token |-> Malformed]}
                        \cup [scheme : {"Bearer"}, token : AccessTokens],
     cookie : {Null} \cup RefreshTokens,
     host : Hosts,
     xTenantId : {Undefined, "t2", "nope"},
     xSubdomain : {Undefined}]

Unauthorized(message) ==
    [error |-> "UnauthorizedException", status |-> 401, message |-> message]

\* the UnauthorizedException with the message `Tenant is ${status}`
TenantIs(status) ==
    [error |-> "UnauthorizedException", status |-> 401, message |-> "Tenant is ",
     tenantStatus |-> status]

extractAccessToken(request) ==
    IF request.authorization = Null THEN Null
    ELSE IF request.authorization.scheme = "Bearer" THEN request.authorization.token
    ELSE Null

\* what a failing JSON.parse throws
SyntaxError == [error |-> "SyntaxError", message |-> "Unexpected token in JSON"]

\* jwtService.decode: the payload without any verification, null when
\* malformed, the thrown error when the payload cannot be parsed
decode(token) ==
    IF token = Malformed THEN Null
    ELSE IF token = Crashing THEN SyntaxError
    ELSE [type |-> token.type, userId |-> token.userId]

\* fault variant: the catch of canActivate rethrows whatever it caught
catchErrorRethrow(error) == error

\* the catch of canActivate: an UnauthorizedException is rethrown, anything
\* else becomes the UnauthorizedException 'Authentication failed'
catchError(error) ==
    IF error.error = "UnauthorizedException" THEN error
    ELSE Unauthorized("Authentication failed")

\* the verified payload, or the UnauthorizedException of the failed verification
validateAccessToken(token) ==
    IF token.verify = "ok" THEN decode(token)
    ELSE IF token.verify = "TokenExpiredError" THEN Unauthorized("Access token has expired")
    ELSE IF token.verify = "JsonWebTokenError" THEN Unauthorized("Invalid access token")
    ELSE Unauthorized("Access token not yet valid")

extractRefreshToken(request) == request.cookie

\* JWT_REFRESH_SECRET or JWT_SECRET is configured
validateRefreshToken(token) ==
    IF token.verify = "ok" THEN Void
    ELSE IF token.verify = "TokenExpiredError"
         THEN Unauthorized("Refresh token has expired. Please login again")
    ELSE IF token.verify = "JsonWebTokenError" THEN Unauthorized("Invalid refresh token")
    ELSE Unauthorized("Refresh token not yet valid")

\* What an execution of canActivate has done: out is "true", "throw" or
\* "lookup" (awaiting getTenantInfo); user is request.user (Null: not attached);
\* steps lists the calls made on the credentials, the resolver and the registry.
Outcome(out, error, user, steps, identifier) ==
    [out |-> out, error |-> error, user |-> user, steps |-> steps, identifier |-> identifier]

\* fault variant: the public flag is not consulted
canActivatePublicIgnored(handler, request) ==
    Outcome("throw", Unauthorized("Access token not found"), Null, << >>, Nil)

\* step 1: a public handler passes at once
canActivatePublic(handler, request) ==
    Outcome("true", Null, Null, << >>, Nil)

\* fault variant: 'cloud' is looked up like any identifier
canActivateTenantNoSentinel(request, user, steps) ==
    LET tenantIdentifier == resolveTenantIdentifier(request) IN
    IF Falsy(tenantIdentifier)
    THEN Outcome("throw", Unauthorized("Tenant identifier not found"), user,
                 Append(steps, "resolve"), tenantIdentifier)
    ELSE Outcome("lookup", Null, user, Append(Append(steps, "resolve"), "getTenantInfo"),
                 tenantIdentifier)

\* steps 8 and 9: the tenant identifier, with request.user already attached
canActivateTenant(request, user, steps) ==
    LET tenantIdentifier == resolveTenantIdentifier(request) IN
    IF Falsy(tenantIdentifier)
    THEN Outcome("throw", Unauthorized("Tenant identifier not found"), user,
                 Append(steps, "resolve"), tenantIdentifier)
    ELSE IF tenantIdentifier = "cloud"
    THEN Outcome("true", Null, user, Append(steps, "resolve"), tenantIdentifier)
    ELSE Outcome("lookup", Null, user, Append(Append(steps, "resolve"), "getTenantInfo"),
                 tenantIdentifier)

\* fault variant: the type of the token is not looked at on a regular handler
canActivateRegularAnyType(request, accessToken, decodedToken) ==
    LET validatedToken == validateAccessToken(accessToken) IN
    IF IsError(validatedToken)
    THEN Outcome("throw", validatedToken, Null, << "decode", "verify" >>, Nil)
    ELSE LET refreshToken == extractRefreshToken(request) IN
    IF refreshToken = Null
    THEN Outcome("throw", Unauthorized("Refresh token not found"), Null,
                 << "decode", "verify", "cookie" >>, Nil)
    ELSE IF IsError(validateRefreshToken(refreshToken))
    THEN Outcome("throw", validateRefreshToken(refreshToken), Null,
                 << "decode", "verify", "cookie", "verifyRefresh" >>, Nil)
    ELSE canActivateTenant(request, [id |-> validatedToken.userId],
                           << "decode", "verify", "cookie", "verifyRefresh" >>)

\* fault variant: the cookie is read and verified before the access token
canActivateRegularCookieFirst(request, accessToken, decodedToken) ==
    IF decodedToken.type = "onboarding"
    THEN Outcome("throw", Unauthorized("Onboarding tokens cannot access this endpoint"),
                 Null, << "decode" >>, Nil)
    ELSE LET refreshToken == extractRefreshToken(request) IN
    IF refreshToken = Null
    THEN Outcome("throw", Unauthorized("Refresh token not found"), Null,
                 << "decode", "cookie" >>, Nil)
    ELSE IF IsError(validateRefreshToken(refreshToken))
    THEN Outcome("throw", validateRefreshToken(refreshToken), Null,
                 << "decode", "cookie", "verifyRefresh" >>, Nil)
    ELSE LET validatedToken == validateAccessToken(accessToken) IN
    IF IsError(validatedToken)
    THEN Outcome("throw", validatedToken, Null,
                 << "decode", "cookie", "verifyRefresh", "verify" >>, Nil)
    ELSE canActivateTenant(request, [id |-> validatedToken.userId],
                           << "decode", "cookie", "verifyRefresh", "verify" >>)

\* fault variant: the tenant is looked up once the access token is verified,
\* the cookie is not consulted
canActivateRegularNoCookie(request, accessToken, decodedToken) ==
    IF decodedToken.type = "onboarding"
    THEN Outcome("throw", Unauthorized("Onboarding tokens cannot access this endpoint"),
                 Null, << "decode" >>, Nil)
    ELSE LET validatedToken == validateAccessToken(accessToken) IN
    IF IsError(validatedToken)
    THEN Outcome("throw", validatedToken, Null, << "decode", "verify" >>, Nil)
    ELSE canActivateTenant(request, [id |-> validatedToken.userId],
                           << "decode", "verify" >>)

\* steps 4 to 7: a regular handler up to the attachment of request.user
canActivateRegular(request, accessToken, decodedToken) ==
    IF decodedToken.type = "onboarding"
    THEN Outcome("throw", Unauthorized("Onboarding tokens cannot access this endpoint"),
                 Null, << "decode" >>, Nil)
    ELSE LET validatedToken == validateAccessToken(accessToken) IN
    IF IsError(validatedToken)
    THEN Outcome("throw", validatedToken, Null, << "decode", "verify" >>, Nil)
    ELSE LET refreshToken == extractRefreshToken(request) IN
    IF refreshToken = Null
    THEN Outcome("throw", Unauthorized("Refresh token not found"), Null,
                 << "decode", "verify", "cookie" >>, Nil)
    ELSE IF IsError(validateRefreshToken(refreshToken))
    THEN Outcome("throw", validateRefreshToken(refreshToken), Null,
                 << "decode", "verify", "cookie", "verifyRefresh" >>, Nil)
    ELSE canActivateTenant(request, [id |-> validatedToken.userId],
                           << "decode", "verify", "cookie", "verifyRefresh" >>)

\* fault variant: an onboarding token goes on to the cookie and the tenant
canActivateOnboardingFullCheck(request, accessToken, decodedToken) ==
    IF decodedToken.type # "onboarding"
    THEN Outcome("throw", Unauthorized("This endpoint requires an onboarding token"),
                 Null, << "decode" >>, Nil)
    ELSE canActivateRegularAnyType(request, accessToken, decodedToken)

\* fault variant: any decodable token is verified on an onboarding handler
canActivateOnboardingAnyType(request, accessToken, decodedToken) ==
    LET validatedToken == validateAccessToken(accessToken) IN
    IF IsError(validatedToken)
    THEN Outcome("throw", validatedToken, Null, << "decode", "verify" >>, Nil)
    ELSE Outcome("true", Null, [id |-> validatedToken.userId], << "decode", "verify" >>, Nil)

\* step 3: an onboarding handler
canActivateOnboarding(request, accessToken, decodedToken) ==
    IF decodedToken.type # "onboarding"
    THEN Outcome("throw", Unauthorized("This endpoint requires an onboarding token"),
                 Null, << "decode" >>, Nil)
    ELSE LET validatedToken == validateAccessToken(accessToken) IN
         IF IsError(validatedToken)
         THEN Outcome("throw", validatedToken, Null, << "decode", "verify" >>, Nil)
         ELSE Outcome("true", Null, [id |-> validatedToken.userId],
                      << "decode", "verify" >>, Nil)

\* the try block of canActivate up to its await
canActivateTry(handler, request) ==
    LET accessToken == extractAccessToken(request) IN
    IF accessToken = Null
    THEN Outcome("throw", Unauthorized("Access token not found"), Null, << >>, Nil)
    ELSE LET decodedToken == decode(accessToken) IN
    IF IsError(decodedToken)
    THEN Outcome("throw", decodedToken, Null, << "decode" >>, Nil)
    ELSE IF decodedToken = Null
    THEN Outcome("throw", Unauthorized("Invalid token format"), Null, << "decode" >>, Nil)
    ELSE IF handler.isOnboarding
    THEN canActivateOnboarding(request, accessToken, decodedToken)
    ELSE canActivateRegular(request, accessToken, decodedToken)

\* canActivate up to its await: what the try block throws goes through the catch
canActivateSync(handler, request) ==
    IF handler.isPublic THEN canActivatePublic(handler, request)
    ELSE LET o == canActivateTry(handler, request) IN
         IF o.out = "throw" THEN [o EXCEPT !.error = catchError(o.error)] ELSE o

\* steps 10 and 11 and the catch: res is what getTenantInfo returned or threw,
\* an error that is not an UnauthorizedException becomes 'Authentication failed'
canActivateAfterLookup(o, res, infos) ==
    IF IsError(res)
    THEN [o EXCEPT !.out = "throw", !.error = catchError(res)]
    ELSE IF res = Null
    THEN [o EXCEPT !.out = "throw", !.error = Unauthorized("Invalid tenant")]
    ELSE IF infos[res.obj].status # "ACTIVE"
    THEN [o EXCEPT !.out = "throw", !.error = TenantIs(infos[res.obj].status)]
    ELSE [o EXCEPT !.out = "true"]

IdleGuard ==
    [pc |-> "idle", handler |-> [isPublic |-> TRUE, isOnboarding |-> FALSE],
     request |-> Null, o |-> Outcome("true", Null, Null, << >>, Nil)]

\* canActivate(context) up to its return, throw or await.  The registry call
\* is getTenantInfo itself, on call slot 1.
CanActivateStart(handler, request) ==
    /\ grd.pc = "idle"
    /\ LET o == canActivateSync(handler, request) IN
       IF o.out = "lookup"
       THEN /\ GetTenantInfoStart(1, o.identifier)
            /\ grd' = IF last'.op = "findFirst"
                      THEN [pc |-> "awaiting", handler |-> handler, request |-> request,
                            o |-> o]
                      ELSE [pc |-> "done", handler |-> handler, request |-> request,
                            o |-> canActivateAfterLookup(o, last'.res, objs)]
       ELSE /\ grd' = [pc |-> "done", handler |-> handler, request |-> request, o |-> o]
            /\ last' = [op |-> "canActivate"]
            /\ UNCHANGED << regVars, now >>

\* the awaited getTenantInfo settles and canActivate returns or throws
CanActivateResume ==
    /\ grd.pc = "awaiting"
    /\ GetTenantInfoFinish(1)
    /\ grd' = [grd EXCEPT !.pc = "done",
                          !.o = canActivateAfterLookup(grd.o, last'.res, objs')]

\* the framework takes the outcome: the handler runs or the 401 is sent
CanActivateReturn ==
    /\ grd.pc = "done"
    /\ grd' = IdleGuard
    /\ last' = NoCall
    /\ UNCHANGED << regVars, now >>

\* the registry's surroundings move between requests and during the await;
\* the requests of one run fall within one TTL window of the registry cache
GuardIdle == grd.pc # "done" /\ UNCHANGED grd

InitGuardVars == grd = IdleGuard

(***************************************************************************)
(* TenantContextInterceptor (HTTP), RequestService and the request path    *)
(***************************************************************************)
\* RequestService.getTenantIdentifier: x-tenant-id || x-subdomain || null
getTenantIdentifier(request) ==
    IF ~Falsy(request.xTenantId) THEN request.xTenantId
    ELSE IF ~Falsy(request.xSubdomain) THEN request.xSubdomain
    ELSE Nil

\* What intercept has done: out is "handle" (next.handle() is returned),
\* "throw" or "lookup" (awaiting getTenantInfo).
Passage(out, error, identifier) == [out |-> out, error |-> error, identifier |-> identifier]

\* intercept up to its await
interceptSync(isPublic, request) ==
    LET tenantIdentifier == getTenantIdentifier(request) IN
    IF isPublic /\ Falsy(tenantIdentifier) THEN Passage("handle", Null, tenantIdentifier)
    ELSE IF Falsy(tenantIdentifier)
    THEN Passage("throw", Unauthorized("Tenant identifier not found in request"),
                 tenantIdentifier)
    ELSE IF tenantIdentifier = "cloud" THEN Passage("handle", Null, tenantIdentifier)
    ELSE Passage("lookup", Null, tenantIdentifier)

\* fault variant: a tenant the registry does not know is let through
interceptAfterLookupLenient(o, res, infos, ti) ==
    IF IsError(res)
    THEN [o |-> [o EXCEPT !.out = "throw", !.error = res], tenantInfo |-> ti, tenant |-> Null]
    ELSE IF res = Null
    THEN [o |-> [o EXCEPT !.out = "handle"], tenantInfo |-> ti, tenant |-> Null]
    ELSE LET set == setTenant(ti, infos[res.obj]) IN
         [o |-> [o EXCEPT !.out = "handle"], tenantInfo |-> set.tenantInfo,
          tenant |-> infos[res.obj]]

\* intercept after the await: res is what getTenantInfo returned or threw, ti
\* the field of the request's TenantContextService; the catch rethrows what it
\* caught.  Gives the outcome, the field and request.tenant.
interceptAfterLookup(o, res, infos, ti) ==
    IF IsError(res)
    THEN [o |-> [o EXCEPT !.out = "throw", !.error = res], tenantInfo |-> ti, tenant |-> Null]
    ELSE IF res = Null
    THEN [o |-> [o EXCEPT !.out = "throw", !.error = Unauthorized("Invalid tenant")],
          tenantInfo |-> ti, tenant |-> Null]
    ELSE IF infos[res.obj].status # "ACTIVE"
    THEN [o |-> [o EXCEPT !.out = "throw", !.error = TenantIs(infos[res.obj].status)],
          tenantInfo |-> ti, tenant |-> Null]
    ELSE LET set == setTenant(ti, infos[res.obj]) IN
         IF IsError(set.res)
         THEN [o |-> [o EXCEPT !.out = "throw", !.error = set.res],
               tenantInfo |-> set.tenantInfo, tenant |-> Null]
         ELSE [o |-> [o EXCEPT !.out = "handle"], tenantInfo |-> set.tenantInfo,
               tenant |-> infos[res.obj]]

IdleHttp ==
    [pc |-> "idle", guarded |-> FALSE, isPublic |-> FALSE, request |-> Null,
     o |-> Passage("handle", Null, Nil), res |-> Void, lookups |-> 0, tenant |-> Null]

\* the requests of the HTTP path: credentials that pass or fail the guard, a
\* host with or without subdomain, and the two tenant headers
HttpRequests ==
    [authorization : {Null, [scheme |-> "Bearer",
                             token |-> [type |-> "access", userId |-> "u1",
                                        verify |-> "ok"]]},
     cookie : {Null, [verify |-> "ok"]},
     host : Hosts,
     xTenantId : {Undefined, "", "t2", "nope", "cloud"},
     xSubdomain : {Undefined, "acme"}]

\* intercept(context, next) up to its return, throw or await.  The request's
\* TenantContextService is the field tenantInfo, empty when the request arrives.
InterceptStart(guarded, isPublic, request) ==
    /\ http.pc = "idle"
    /\ LET o == interceptSync(isPublic, request)
           at(pc, p, res, n, tenant) ==
               [pc |-> pc, guarded |-> guarded, isPublic |-> isPublic, request |-> request,
                o |-> p, res |-> res, lookups |-> n, tenant |-> tenant]
       IN
       IF o.out = "lookup"
       THEN /\ GetTenantInfoStart(1, o.identifier)
            /\ IF last'.op = "findFirst"
               THEN /\ http' = at("awaiting", o, Void, 1, Null)
                    /\ UNCHANGED tenantInfo
               ELSE LET a == interceptAfterLookup(o, last'.res, objs, tenantInfo) IN
                    /\ http' = at("done", a.o, last'.res, 1, a.tenant)
                    /\ tenantInfo' = a.tenantInfo
       ELSE /\ http' = at("done", o, Void, 0, Null)
            /\ last' = [op |-> "intercept"]
            /\ UNCHANGED << regVars, tenantInfo, now >>

\* a route behind VrittiAuthGuard: the interceptor runs once canActivate
\* returned true
InterceptGuarded ==
    /\ grd.pc = "done" /\ grd.o.out = "true"
    /\ InterceptStart(TRUE, grd.handler.isPublic, grd.request)
    /\ UNCHANGED grd

\* a route with the interceptor alone
InterceptUnguarded(isPublic, request) ==
    /\ grd.pc = "idle"
    /\ InterceptStart(FALSE, isPublic, request)
    /\ UNCHANGED grd

\* the awaited getTenantInfo settles and intercept returns or throws
InterceptResume ==
    /\ http.pc = "awaiting"
    /\ GetTenantInfoFinish(1)
    /\ LET a == interceptAfterLookup(http.o, last'.res, objs', tenantInfo) IN
       /\ http' = [http EXCEPT !.pc = "done", !.o = a.o, !.res = last'.res,
                                !.tenant = a.tenant]
       /\ tenantInfo' = a.tenantInfo
    /\ UNCHANGED grd

\* next.handle(): the route handler runs
HandlerRuns ==
    /\ http.pc = "done" /\ http.o.out = "handle"
    /\ http' = [http EXCEPT !.pc = "handler"]
    /\ last' = [op |-> "handle"]
    /\ UNCHANGED << regVars, tenantInfo, grd, now >>

\* the response is sent (the handler's result, or the error of the guard or of
\* the interceptor) and the request-scoped services are dropped
RequestEnd ==
    /\ \/ http.pc = "handler"
       \/ http.pc = "done" /\ http.o.out = "throw"
       \/ http.pc = "idle" /\ grd.pc = "done" /\ grd.o.out = "throw"
    /\ http' = IdleHttp
    /\ grd' = IdleGuard
    /\ tenantInfo' = Null
    /\ last' = NoCall
    /\ UNCHANGED << regVars, now >>

\* the guard's steps on the request path, and the registry's surroundings
\* moving between the steps of a request
HttpGuard == http.pc = "idle" /\ UNCHANGED << http, tenantInfo >>
HttpQuiet == http.pc \in {"idle", "awaiting"} /\ UNCHANGED << grd, http, tenantInfo >>

InitHttpVars == http = IdleHttp

(***************************************************************************)
(* Specifications                                                          *)
(***************************************************************************)
InitCtx == InitCtxVars /\ InitMsgVars /\ InitRegVars /\ InitPoolVars /\ InitGuardVars /\ InitHttpVars /\ InitEvVars
    /\ now = 0

NextCtx ==
    /\ \/ \E r \in TenantInfo : DoSetTenant(r)
       \/ DoGetTenant
       \/ DoHasTenant
       \/ DoClearTenant
       \/ DoGetTenantIdSafe
    /\ UNCHANGED << msgVars, regVars, poolVars, grd, ev, http, now >>

SpecCtx == InitCtx /\ [][NextCtx]_vars

InitMsg == InitCtxVars /\ InitMsgVars /\ InitRegVars /\ InitPoolVars /\ InitGuardVars /\ InitHttpVars /\ InitEvVars
    /\ now = 0

NextMsg ==
    /\ \/ \E s \in Slots, ct \in ContextTypes, t \in TenantInfo \cup {Null} : Intercept(s, ct, t)
       \/ \E s \in Slots : HandlerGetTenant(s)
       \/ \E s \in Slots : GetDbClientStart(s)
       \/ \E s \in Slots : GetDbClientCreated(s)
       \/ \E s \in Slots : GetDbClientFailed(s)
       \/ \E s \in Slots : StreamNext(s)
       \/ \E s \in Slots : StreamError(s)
       \/ \E s \in Slots : StreamComplete(s)
       \/ Tick
    /\ UNCHANGED << lastOk, regVars, poolVars, grd, ev, http >>

SpecMsg == InitMsg /\ [][NextMsg]_vars

InitReg == InitCtxVars /\ InitMsgVars /\ InitRegVars /\ InitPoolVars /\ InitGuardVars /\ InitHttpVars /\ InitEvVars
    /\ now = 0

NextReg ==
    /\ \/ \E b \in BOOLEAN : OnModuleInit(b)
       \/ \E c \in CallSlots, k \in Identifiers : GetTenantInfoStart(c, k)
       \/ \E c \in CallSlots : GetTenantInfoFinish(c)
       \/ \E t \in timers : TimerFire(t)
       \/ \E k \in Identifiers : clearTenantCache(k)
       \/ clearAllCaches
       \/ \E i \in TenantIds, st \in TenantStatuses : StoreUpdate(i, st)
       \/ StoreFlip
       \/ TickReg
    /\ UNCHANGED << tenantInfo, lastOk, msgVars, poolVars, grd, ev, http >>

SpecReg == InitReg /\ [][NextReg]_vars

InitPool == InitCtxVars /\ InitMsgVars /\ InitRegVars /\ InitPoolVars /\ InitGuardVars /\ InitHttpVars /\ InitEvVars
    /\ now = 0

NextPool ==
    /\ \/ \E c \in AcqSlots, ti \in PoolTenants \cup {Null} : AcquireStart(c, ti)
       \/ \E c \in AcqSlots : AcquireCreated(c)
       \/ \E c \in AcqSlots : AcquireFailed(c)
       \/ cleanupIdleConnections
       \/ \E h \in DOMAIN disconnects, ok \in BOOLEAN : DisconnectSettle(h, ok)
       \/ OnModuleDestroy
       \/ OnModuleDestroyReturn
       \/ PoolTick
    /\ UNCHANGED << tenantInfo, lastOk, msg, regVars, grd, ev, http >>

SpecPool == InitPool /\ [][NextPool]_vars

InitGuard ==
    InitCtxVars /\ InitMsgVars /\ InitRegVars /\ InitPoolVars /\ InitGuardVars /\ InitHttpVars /\ InitEvVars
    /\ now = 0

NextGuard ==
    /\ \/ \E h \in Handlers, rq \in Requests : CanActivateStart(h, rq)
       \/ CanActivateResume
       \/ CanActivateReturn
       \/ GuardIdle /\ \E b \in BOOLEAN : OnModuleInit(b)
       \/ GuardIdle /\ \E i \in TenantIds, st \in TenantStatuses : StoreUpdate(i, st)
       \/ GuardIdle /\ StoreFlip
    /\ UNCHANGED << tenantInfo, lastOk, msgVars, poolVars, ev, http >>

SpecGuard == InitGuard /\ [][NextGuard]_vars

InitHttp ==
    InitCtxVars /\ InitMsgVars /\ InitRegVars /\ InitPoolVars /\ InitGuardVars /\ InitHttpVars /\ InitEvVars
    /\ now = 0

NextHttp ==
    /\ \/ HttpGuard /\ \E h \in Handlers, rq \in HttpRequests : CanActivateStart(h, rq)
       \/ HttpGuard /\ CanActivateResume
       \/ InterceptGuarded
       \/ \E p \in BOOLEAN, rq \in HttpRequests : InterceptUnguarded(p, rq)
       \/ InterceptResume
       \/ HandlerRuns
       \/ RequestEnd
       \/ HttpQuiet /\ \E b \in BOOLEAN : OnModuleInit(b)
       \/ HttpQuiet /\ \E i \in TenantIds, st \in TenantStatuses : StoreUpdate(i, st)
       \/ HttpQuiet /\ StoreFlip
    /\ UNCHANGED << lastOk, msgVars, poolVars, ev >>

SpecHttp == InitHttp /\ [][NextHttp]_vars

InitResolve ==
    /\ InitCtxVars /\ InitMsgVars /\ InitRegVars /\ InitPoolVars /\ InitGuardVars /\ InitHttpVars
    /\ ev \in { [op |-> "request", request |-> rq] : rq \in ResolverRequests }
    /\ now = 0

NextResolve ==
    /\ ResolveTenantIdentifier
    /\ UNCHANGED << ctxVars, msgVars, regVars, poolVars, grd, http, now >>

SpecResolve == InitResolve /\ [][NextResolve]_vars

InitParse ==
    /\ InitCtxVars /\ InitMsgVars /\ InitRegVars /\ InitPoolVars /\ InitGuardVars /\ InitHttpVars
    /\ ev \in { [op |-> "host", host |-> h, port |-> p] : h \in HostStrings, p \in Words }
    /\ now = 0

NextParse ==
    /\ ExtractSubdomain
    /\ UNCHANGED << ctxVars, msgVars, regVars, poolVars, grd, http, now >>

SpecParse == InitParse /\ [][NextParse]_vars

InitExc ==
    /\ InitCtxVars /\ InitMsgVars /\ InitRegVars /\ InitPoolVars /\ InitGuardVars /\ InitHttpVars
    /\ ev \in { [op |-> "new", cls |-> c.cls, a1 |-> c.a1, a2 |-> c.a2, a3 |-> c.a3] :
                 c \in ConstructorCalls }
    /\ now = 0

NextExc ==
    /\ Construct
    /\ UNCHANGED << ctxVars, msgVars, regVars, poolVars, grd, http, now >>

SpecExc == InitExc /\ [][NextExc]_vars

(***************************************************************************)
(* Properties                                                              *)
(***************************************************************************)
HandleReturned == last.op = "getDbClient" /\ "handle" \in DOMAIN last.res

C2_InterleavedIsolation ==
    \A s \in Slots :
        (last.op = "handler.getTenant" /\ last.slot = s
            /\ msg[s].tenant # Null /\ msg[s].pc = "handling" /\ IsTenant(last.res))
        => last.res = msg[s].tenant

\* C3: connection isolation.  The handle getDbClient returns to a unit of work
\* was built for the tenant id of the record in that unit of work's context.
C3_ConnectionIsolation ==
    HandleReturned => builtFor[last.res.handle].id = last.tenant.id

\* C4: write-once context.  A setTenant on a populated context fails with the
\* already-set error and leaves the stored record as it was, whether the new
\* record equals the stored one or not.
C4_WriteOnce ==
    (last.op = "setTenant" /\ last.before # Null)
    => /\ last.res = AlreadySetError
       /\ tenantInfo = last.before
       /\ tenantInfo = lastOk

C4_Witness ==
    /\ last.op = "setTenant" /\ last.before # Null /\ last.arg = last.before
    /\ last.res = AlreadySetError

\* C5: getTenant fails closed.  With no successful setTenant since construction
\* or the last clearTenant, getTenant throws the 401 UnauthorizedException;
\* otherwise it returns the record of the last successful setTenant.
C5_GetTenantFailsClosed ==
    last.op = "getTenant"
    => IF lastOk = Null
       THEN last.res = NotSetError /\ last.res.status = 401
       ELSE last.res = lastOk

C5_Witness ==
    last.op = "getTenant" /\ lastOk = Null /\ last.res = NotSetError

\* C6: clearTenant resets the context from any state and never fails: right
\* after it hasTenant() is false, getTenant() throws, getTenantIdSafe() is null
\* and setTenant succeeds for every record.
C6_ClearResets ==
    last.op = "clearTenant"
    => /\ last.res = Void
       /\ ~hasTenant(tenantInfo)
       /\ IsError(getTenant(tenantInfo))
       /\ getTenantIdSafe(tenantInfo) = Null
       /\ \A r \in TenantInfo : setTenant(tenantInfo, r) = [tenantInfo |-> r, res |-> Void]

C6_Witness ==
    last.op = "clearTenant" /\ IsTenant(last.before) /\ tenantInfo = Null

\* C7: message-mode cleanup.  Right after a handler stream has emitted, errored
\* or completed, the context is empty.
C7_CleanupAfterStream ==
    last.op \in {"next", "error", "complete"} => ~hasTenant(tenantInfo)

C7_Witness ==
    last.op = "error" /\ msg[last.slot].isSet /\ ~hasTenant(tenantInfo)

\* C8: fail closed on tenant status.  getDbClient returns a handle only while
\* the record in the context has status ACTIVE.
C8_ActiveOnly ==
    HandleReturned => last.tenant.status = "ACTIVE"

\* C9: registry cache correctness.  A getTenantInfo call made within the TTL
\* window of the latest insertion for its identifier hits the cache and returns
\* that insertion's object without a query; a call made after that entry's expiry
\* issues exactly one query.
C9_CacheWindow ==
    last.op \in {"getTenantInfo", "findFirst"}
    => /\ last.win # Null => last.hit /\ last.res = last.win /\ last.queries = 0
       /\ last.expired => last.queries = 1

\* C10: not-found versus failure.  A getTenantInfo call that is not served from
\* the cache returns null exactly when the store answered that no active tenant
\* matches, and throws the 500 InternalServerErrorException exactly when the
\* client is not initialised or the query failed.
C10_NotFoundVsFailure ==
    (last.op = "getTenantInfo" /\ ~last.hit)
    => /\ last.res = Null <=> last.answer = "notfound"
       /\ last.res = ResolveError <=> last.answer \in {"failed", "uninit"}
       /\ "obj" \in DOMAIN last.res <=> last.answer = "found"
       /\ ResolveError.status = 500

C10_Witness ==
    /\ last.op = "getTenantInfo" /\ ~last.hit
    /\ last.answer = "failed" /\ last.res = ResolveError

\* a getDbClient call on the pool has returned a handle
Acquired == last.op = "getDbClient" /\ "hit" \in DOMAIN last /\ "handle" \in DOMAIN last.res

\* C11: connection reuse.  An acquisition returns the handle that every
\* acquisition for the same cache key completed before its start has returned
\* (the key not evicted in between), so it builds no second connection; entries
\* under different keys hold different handles; at the return of every
\* acquisition, hit or miss, the key's lastUsed time is the current time.
C11_ConnectionReuse ==
    /\ Acquired
       => /\ \A h \in last.prev : last.res.handle = h /\ last.hit
          /\ clients[last.key] = last.res.handle
          /\ clientLastUsed[last.key] = now
    /\ \A k1, k2 \in DOMAIN clients : k1 # k2 => clients[k1] # clients[k2]

\* C12: no duplicate concurrent builds.  While a getDbClient call awaited the
\* creation of its connection, no other connection was created for the same
\* cache key: overlapping calls for a cold key end with one connection and the
\* same handle.
C12_SingleBuild ==
    (Acquired /\ ~last.hit)
    => \A h \in DOMAIN builtFor :
          (h > last.since /\ builtFor[h].key = last.key) => h = last.res.handle

\* C13: failed builds are not cached.  When createDbClient fails, for missing
\* connection parameters or a connect error, getDbClient throws the 500
\* InternalServerErrorException, clients and clientLastUsed are as they were,
\* and the key has no entry unless another call stored one, so the next
\* getDbClient for the key builds again.
C13_FailedBuildNotCached ==
    (last.op = "getDbClient" /\ "cause" \in DOMAIN last /\ last.cause \in {"config", "connect"})
    => /\ last.res = ConnectError
       /\ last.res.status = 500
       /\ clients = last.before.clients
       /\ clientLastUsed = last.before.clientLastUsed
       /\ last.key \notin DOMAIN last.before.clients => last.key \notin DOMAIN clients

C13_Witness ==
    /\ last.op = "getDbClient" /\ "cause" \in DOMAIN last /\ last.cause = "connect"
    /\ last.res = ConnectError
    /\ clients # << >> /\ last.key \notin DOMAIN clients

\* C14: idle eviction.  Right after a cleanupIdleConnections sweep at time now,
\* every entry that had now - lastUsed greater than the threshold is gone from
\* the pool, every entry that had now - lastUsed at most the threshold is still
\* there with the same handle and lastUsed time, and nothing was added.
C14_IdleEviction ==
    last.op = "cleanupIdleConnections"
    => /\ \A key \in DOMAIN last.before.clients :
             IF now - last.before.clientLastUsed[key] > maxIdle
             THEN key \notin DOMAIN clients /\ key \notin DOMAIN clientLastUsed
             ELSE /\ key \in DOMAIN clients
                  /\ clients[key] = last.before.clients[key]
                  /\ clientLastUsed[key] = last.before.clientLastUsed[key]
       /\ DOMAIN clients \subseteq DOMAIN last.before.clients

C14_Witness ==
    /\ last.op = "cleanupIdleConnections" /\ last.cleaned = 1
    /\ \E key \in DOMAIN clients : now - clientLastUsed[key] = maxIdle

\* C15: drain on shutdown.  onModuleDestroy calls $disconnect() on every entry
\* of the pool whatever its lastUsed time, returns only when each of these
\* closes has completed or failed, returns normally also when a close failed,
\* and clears the interval: no sweep runs once it has started.
C15_DrainOnShutdown ==
    /\ last.op = "onModuleDestroy.start"
       => /\ destroy.closes = Handles(last.before.clients)
          /\ \A h \in destroy.closes : h \in DOMAIN disconnects
    /\ last.op = "onModuleDestroy"
       => /\ last.res = Void
          /\ \A h \in destroy.closes : disconnects[h] \in {"done", "failed"}
    /\ destroy.pc # "none"
       => cleanupInterval = "cleared" /\ last.op # "cleanupIdleConnections"

C15_Witness ==
    /\ last.op = "onModuleDestroy" /\ last.res = Void
    /\ \E h1, h2 \in destroy.closes : disconnects[h1] = "failed" /\ disconnects[h2] = "done"
    /\ \E k1, k2 \in DOMAIN clients : now - clientLastUsed[k1] > maxIdle
                                      /\ now - clientLastUsed[k2] <= maxIdle

\* an execution of canActivate has returned or thrown
Decided == grd.pc = "done"
\* the request carries a bearer credential that decodes
BearerType ==
    IF extractAccessToken(grd.request) = Null THEN Null
    ELSE IF decode(extractAccessToken(grd.request)) = Null THEN Null
    ELSE IF IsError(decode(extractAccessToken(grd.request))) THEN Null
    ELSE [value |-> decode(extractAccessToken(grd.request)).type]
BearerVerifies ==
    /\ extractAccessToken(grd.request) # Null
    /\ extractAccessToken(grd.request) \notin {Malformed, Crashing}
    /\ extractAccessToken(grd.request).verify = "ok"
CookieVerifies == grd.request.cookie # Null /\ grd.request.cookie.verify = "ok"

\* C16: public bypass.  On a handler marked public canActivate returns true for
\* every request, with or without credentials, and it decodes and verifies no
\* token, resolves no tenant identifier, issues no registry query and attaches
\* no subject to the request.
C16_PublicBypass ==
    (grd.pc # "idle" /\ grd.handler.isPublic)
    => /\ Decided /\ grd.o.out = "true"
       /\ grd.o.steps = << >>
       /\ grd.o.user = Null
       /\ last.op = "canActivate"

C16_Witness ==
    /\ Decided /\ grd.handler.isPublic /\ grd.handler.isOnboarding
    /\ grd.request.authorization = Null /\ grd.request.cookie = Null
    /\ grd.o.out = "true"

\* C17: onboarding handlers accept only onboarding tokens.  On a handler marked
\* onboarding and not public, a bearer credential that decodes to a type other
\* than 'onboarding' ('access' or no type) fails with the 401 'This endpoint
\* requires an onboarding token', whether or not the token verifies.
C17_OnboardingOnly ==
    (grd.pc # "idle" /\ ~grd.handler.isPublic /\ grd.handler.isOnboarding
        /\ BearerType \in {[value |-> "access"], [value |-> Undefined]})
    => /\ Decided /\ grd.o.out = "throw"
       /\ grd.o.error = Unauthorized("This endpoint requires an onboarding token")
       /\ grd.o.error.status = 401

C17_Witness ==
    /\ Decided /\ ~grd.handler.isPublic /\ grd.handler.isOnboarding
    /\ BearerType = [value |-> "access"] /\ BearerVerifies
    /\ grd.o.error = Unauthorized("This endpoint requires an onboarding token")

\* C18: onboarding success path.  On a handler marked onboarding and not
\* public, a bearer credential of type 'onboarding' that verifies makes
\* canActivate return true with the token's userId attached as request.user;
\* the execution reads and verifies no cookie, resolves no tenant identifier
\* and issues no registry query.
C18_OnboardingSuccess ==
    (grd.pc # "idle" /\ ~grd.handler.isPublic /\ grd.handler.isOnboarding
        /\ BearerType = [value |-> "onboarding"] /\ BearerVerifies)
    => /\ Decided /\ grd.o.out = "true"
       /\ grd.o.user = [id |-> extractAccessToken(grd.request).userId]
       /\ grd.o.steps = << "decode", "verify" >>
       /\ last.op = "canActivate"

C18_Witness ==
    /\ Decided /\ ~grd.handler.isPublic /\ grd.handler.isOnboarding
    /\ BearerType = [value |-> "onboarding"] /\ BearerVerifies
    /\ grd.request.cookie = Null /\ resolveTenantIdentifier(grd.request) = Nil
    /\ grd.o.out = "true" /\ grd.o.user = [id |-> "u1"]

\* C19: regular handlers reject onboarding tokens.  On a handler that is neither
\* public nor onboarding, a bearer credential that decodes to type 'onboarding'
\* fails with the 401 'Onboarding tokens cannot access this endpoint' before
\* anything is verified, also when the token verifies, a valid cookie is
\* present and the tenant is active; canActivate never returns true for it.
C19_RegularRejectsOnboarding ==
    (grd.pc # "idle" /\ ~grd.handler.isPublic /\ ~grd.handler.isOnboarding
        /\ BearerType = [value |-> "onboarding"])
    => /\ Decided /\ grd.o.out = "throw"
       /\ grd.o.error = Unauthorized("Onboarding tokens cannot access this endpoint")
       /\ grd.o.error.status = 401
       /\ grd.o.steps = << "decode" >>

C19_Witness ==
    /\ Decided /\ ~grd.handler.isPublic /\ ~grd.handler.isOnboarding
    /\ BearerType = [value |-> "onboarding"] /\ BearerVerifies /\ CookieVerifies
    /\ resolveTenantIdentifier(grd.request) = "acme"
    /\ storeUp /\ store["t1"] = "ACTIVE" /\ primaryDbClient = "set"
    /\ grd.o.out = "throw"

\* C20: platform-admin sentinel.  On a regular handler, a request whose access
\* credential is not of type 'onboarding' and verifies, whose cookie verifies
\* and whose resolved tenant identifier is exactly 'cloud' passes, with the
\* subject attached, and no getTenantInfo is issued for it.
C20_CloudSentinel ==
    (grd.pc # "idle" /\ ~grd.handler.isPublic /\ ~grd.handler.isOnboarding
        /\ BearerType \in {[value |-> "access"], [value |-> Undefined]}
        /\ BearerVerifies /\ CookieVerifies
        /\ resolveTenantIdentifier(grd.request) = "cloud")
    => /\ Decided /\ grd.o.out = "true"
       /\ grd.o.user = [id |-> extractAccessToken(grd.request).userId]
       /\ grd.o.steps = << "decode", "verify", "cookie", "verifyRefresh", "resolve" >>
       /\ last.op = "canActivate"

C20_Witness ==
    /\ Decided /\ ~grd.handler.isPublic /\ ~grd.handler.isOnboarding
    /\ BearerType = [value |-> "access"] /\ BearerVerifies /\ CookieVerifies
    /\ grd.request.xTenantId = "t2" /\ resolveTenantIdentifier(grd.request) = "cloud"
    /\ primaryDbClient = "unset"
    /\ grd.o.out = "true"

RegularHandler == ~grd.handler.isPublic /\ ~grd.handler.isOnboarding
\* both credentials of the request pass the checks of a regular handler
ValidCredentials ==
    /\ BearerType \in {[value |-> "access"], [value |-> Undefined]}
    /\ BearerVerifies /\ CookieVerifies
\* the tenants of the registry table that an identifier names, whatever their status
TenantsNamed(k) == { i \in TenantIds : i = k \/ SubdomainOf(i) = k }

\* C21: tenant status gate.  On a regular handler, with valid credentials, a
\* resolved identifier other than 'cloud' and the registry answering: an
\* identifier that names no tenant fails with the 401 'Invalid tenant', and an
\* identifier that names a tenant whose status is not ACTIVE fails with the 401
\* 'Tenant is <status>' carrying that status.
C21_StatusGate ==
    (Decided /\ RegularHandler /\ ValidCredentials
        /\ ~Falsy(resolveTenantIdentifier(grd.request))
        /\ resolveTenantIdentifier(grd.request) # "cloud"
        /\ primaryDbClient = "set" /\ storeUp)
    => LET named == TenantsNamed(resolveTenantIdentifier(grd.request)) IN
       /\ named = {} => grd.o.out = "throw" /\ grd.o.error = Unauthorized("Invalid tenant")
       /\ \A i \in named :
             store[i] # "ACTIVE"
             => /\ grd.o.out = "throw"
                /\ grd.o.error = TenantIs(store[i])

\* the bearer token is one the guard treats as an access credential (its type
\* is not 'onboarding') and jwtService.verify rejects it as expired
AccessExpired ==
    /\ BearerType \in {[value |-> "access"], [value |-> Undefined]}
    /\ extractAccessToken(grd.request).verify = "TokenExpiredError"

\* C22: expired access credential.  On a regular handler, a request whose
\* access credential (a bearer token not of type 'onboarding') is expired fails
\* with the 401 'Access token has expired', whatever its cookie and whatever
\* its tenant identifier; the cookie is not read, no tenant identifier is
\* resolved and no registry query is issued.
C22_ExpiredAccess ==
    (grd.pc # "idle" /\ RegularHandler /\ AccessExpired)
    => /\ Decided /\ grd.o.out = "throw"
       /\ grd.o.error = Unauthorized("Access token has expired")
       /\ grd.o.steps = << "decode", "verify" >>
       /\ last.op = "canActivate"

C22_Witness ==
    /\ Decided /\ RegularHandler /\ AccessExpired
    /\ grd.request.cookie = Null
    /\ resolveTenantIdentifier(grd.request) = "nope"
    /\ grd.o.error = Unauthorized("Access token has expired")

\* the execution reached the registry and getTenantInfo threw
RegistryFailed ==
    /\ Decided /\ grd.o.steps # << >>
    /\ grd.o.steps[Len(grd.o.steps)] = "getTenantInfo"
    /\ IsError(last.res)

\* C23: uniform failure class.  Whenever canActivate terminates otherwise than
\* by returning true it throws an UnauthorizedException with status 401; when
\* the fault was not an UnauthorizedException -- jwtService.decode throwing on
\* the bearer token of a non-public handler, or getTenantInfo throwing its 500
\* -- the error thrown is the 401 'Authentication failed'.
C23_UniformFailure ==
    /\ (Decided /\ grd.o.out # "true")
       => /\ grd.o.out = "throw"
          /\ grd.o.error.error = "UnauthorizedException"
          /\ grd.o.error.status = 401
    /\ (Decided /\ ~grd.handler.isPublic /\ extractAccessToken(grd.request) = Crashing)
       => grd.o.out = "throw" /\ grd.o.error = Unauthorized("Authentication failed")
    /\ RegistryFailed
       => grd.o.out = "throw" /\ grd.o.error = Unauthorized("Authentication failed")

C23_Witness ==
    /\ RegistryFailed /\ last.res = ResolveError /\ last.res.status = 500
    /\ RegularHandler /\ ValidCredentials
    /\ grd.o.error = Unauthorized("Authentication failed")

\* the host name of a host string (what precedes its first ':'), the number of
\* its dot-separated labels and its first label
RECURSIVE UpTo(_, _)
UpTo(s, sep) ==
    IF s = << >> \/ Head(s) = sep THEN << >> ELSE << Head(s) >> \o UpTo(Tail(s), sep)
HostName(host) == UpTo(host, ":")
LabelCount(host) == Cardinality({ i \in 1..Len(HostName(host)) : HostName(host)[i] = "." }) + 1
FirstLabel(host) ==
    IF HostName(host) = << >> \/ HostName(host)[1] = "." THEN "" ELSE HostName(host)[1]
HeaderSet(h) == h # Undefined /\ h # ""

\* C24: tenant identifier priority.  resolveTenantIdentifier returns the first
\* label of the host when the host without its port has at least three
\* dot-separated labels and the first is not empty; otherwise the x-tenant-id
\* header when it is present and not empty; otherwise the x-subdomain header
\* when it is present and not empty; otherwise null.
C24_IdentifierPriority ==
    ev.op = "resolveTenantIdentifier"
    => LET rq == ev.request IN
       ev.res = IF LabelCount(rq.host) >= 3 /\ FirstLabel(rq.host) # ""
                THEN FirstLabel(rq.host)
                ELSE IF HeaderSet(rq.xTenantId) THEN rq.xTenantId
                ELSE IF HeaderSet(rq.xSubdomain) THEN rq.xSubdomain
                ELSE Nil

C24_Witness ==
    /\ ev.op = "resolveTenantIdentifier"
    /\ ev.request.host = << "acme", ".", "cloud", ".", "acme", ":", "cloud" >>
    /\ ev.request.xTenantId = "t2" /\ ev.request.xSubdomain = "globex"
    /\ ev.res = "acme"

\* the argument patterns of a constructor call
PatMessage == ev.a1.t = "string" /\ ev.a2 = Undef /\ ev.a3 = Undef
PatFieldMessage == ev.a1.t = "string" /\ ev.a2.t = "string" /\ ev.a3 = Undef
PatFieldMessageDetail == ev.a1.t = "string" /\ ev.a2.t = "string" /\ ev.a3.t = "string"
PatErrors == ev.a1.t = "array" /\ ev.a2 = Undef /\ ev.a3 = Undef
PatErrorsDetail == ev.a1.t = "array" /\ ev.a2.t = "string" /\ ev.a3 = Undef

\* C25: exception constructors.  For every class built on BaseFieldException
\* and each argument pattern -- (message), (field, message), (field, message,
\* detail), (errors[]) and (errors[], detail) -- the exception has the class's
\* HTTP status, its errors list is exactly [{message}], [{field, message}] or
\* the given array, and its response has the given detail when one was passed
\* and no detail otherwise.
C25_Constructors ==
    ev.op = "constructed"
    => LET r == ev.exc.response
           NoDetail == "detail" \notin DOMAIN r
       IN
       /\ (PatMessage \/ PatFieldMessage \/ PatFieldMessageDetail \/ PatErrors
              \/ PatErrorsDetail)
          => ev.exc.status = Num(ev.cls.status)
       /\ PatMessage => r.errors = << [message |-> ev.a1.v] >> /\ NoDetail
       /\ PatFieldMessage
          => r.errors = << [field |-> ev.a1.v, message |-> ev.a2.v] >> /\ NoDetail
       /\ PatFieldMessageDetail
          => /\ r.errors = << [field |-> ev.a1.v, message |-> ev.a2.v] >>
             /\ ~NoDetail /\ r.detail = ev.a3
       /\ PatErrors => r.errors = ev.a1.items /\ NoDetail
       /\ PatErrorsDetail => r.errors = ev.a1.items /\ ~NoDetail /\ r.detail = ev.a2

\* The checks of a regular handler in the order of the claim, each with the
\* reason it fails with; Null when every check passes.  The last two checks
\* are about the tenant as the registry table has it.
FirstFailure ==
    LET token == extractAccessToken(grd.request)
        cookie == grd.request.cookie
        identifier == resolveTenantIdentifier(grd.request)
        inactive == { i \in TenantsNamed(identifier) : store[i] # "ACTIVE" }
    IN
    IF token = Null THEN Unauthorized("Access token not found")
    ELSE IF token = Malformed THEN Unauthorized("Invalid token format")
    ELSE IF token = Crashing THEN Unauthorized("Authentication failed")
    ELSE IF token.type = "onboarding"
    THEN Unauthorized("Onboarding tokens cannot access this endpoint")
    ELSE IF token.verify = "TokenExpiredError" THEN Unauthorized("Access token has expired")
    ELSE IF token.verify = "JsonWebTokenError" THEN Unauthorized("Invalid access token")
    ELSE IF cookie = Null THEN Unauthorized("Refresh token not found")
    ELSE IF cookie.verify = "TokenExpiredError"
    THEN Unauthorized("Refresh token has expired. Please login again")
    ELSE IF Falsy(identifier) THEN Unauthorized("Tenant identifier not found")
    ELSE IF identifier = "cloud" THEN Null
    ELSE IF TenantsNamed(identifier) = {} THEN Unauthorized("Invalid tenant")
    ELSE IF inactive # {} THEN TenantIs(store[CHOOSE i \in inactive : TRUE])
    ELSE Null

\* C26: order of the guard's checks on a regular handler.  With the registry
\* reachable, canActivate fails exactly when one of the checks -- credential
\* present, decodable, not of type 'onboarding', verified, cookie present,
\* cookie verified, tenant identifier present, tenant found, tenant ACTIVE --
\* fails, and the reason thrown is that of the first of them that fails.
C26_CheckOrder ==
    (Decided /\ RegularHandler /\ primaryDbClient = "set" /\ storeUp)
    => /\ grd.o.error = FirstFailure
       /\ grd.o.out = (IF FirstFailure = Null THEN "true" ELSE "throw")

\* C27: infrastructure failures are server faults.  When getTenantInfo fails
\* (registry client missing, store unreachable, query failing) during the
\* canActivate of a request with valid credentials on a regular handler, the
\* error that leaves the guard is a 500 server fault and not a 401.
C27_InfrastructureFault ==
    (RegistryFailed /\ RegularHandler /\ ValidCredentials)
    => /\ grd.o.out = "throw"
       /\ grd.o.error.status = 500
       /\ grd.o.error.error # "UnauthorizedException"

\* a getTenantInfo call has just issued its query or returned, for an
\* identifier whose latest insertion was made by a call for the other key of
\* the same tenant and is within its TTL
OtherKeyInWindow ==
    /\ last.op \in {"getTenantInfo", "findFirst"}
    /\ last.win # Null
    /\ last.identifier \in DOMAIN lastIns
    /\ lastIns[last.identifier].by # last.identifier

\* C28: dual-key insertion.  Right after a getTenantInfo miss that found a
\* tenant, the cache holds the object it returned under the tenant's id and
\* under its subdomain; and a getTenantInfo by the other key of that tenant
\* within the TTL of the insertion returns that object without a query.
C28_DualKey ==
    /\ (last.op = "getTenantInfo" /\ ~last.hit /\ last.answer = "found")
       => LET info == last.res.obj IN
          /\ Cached(objs[info].id) /\ Cached(objs[info].subdomain)
          /\ tenantConfigCache[objs[info].id] = info
          /\ tenantConfigCache[objs[info].subdomain] = info
          /\ objs[info].id # objs[info].subdomain
    /\ OtherKeyInWindow
       => last.hit /\ last.res = last.win /\ last.queries = 0

\* the tenants (ids) whose keys the cache m holds
CachedTenants(m) == { i \in TenantIds : i \in DOMAIN m \/ SubdomainOf(i) \in DOMAIN m }
TenantKeys(i) == {i, SubdomainOf(i)}

\* C29: invalidation.  Right after clearTenantCache(x) with x a cached id or
\* subdomain, neither key of that tenant is in the cache and every other entry
\* is as it was; with x not cached the cache is as it was.  A getTenantInfo
\* call is answered from the cache only for an identifier inserted and not
\* invalidated since, so the next call by either key after an invalidation
\* consults the registry.
C29_Invalidation ==
    /\ last.op = "clearTenantCache"
       => LET x == last.identifier
              before == last.before
          IN IF x \in DOMAIN before
             THEN \E i \in TenantIds :
                    /\ x \in TenantKeys(i)
                    /\ DOMAIN tenantConfigCache = DOMAIN before \ TenantKeys(i)
                    /\ \A k \in DOMAIN tenantConfigCache : tenantConfigCache[k] = before[k]
             ELSE tenantConfigCache = before
    /\ (last.op \in {"getTenantInfo", "findFirst"} /\ last.identifier \notin DOMAIN lastIns)
       => /\ ~last.hit
          /\ last.queries = 1 \/ last.answer = "uninit"

C29_Witness ==
    /\ last.op = "clearTenantCache" /\ last.identifier = "acme"
    /\ CachedTenants(last.before) = {"t1", "t2"}
    /\ DOMAIN last.before = {"t1", "acme", "t2", "globex"}
    /\ DOMAIN tenantConfigCache = {"t2", "globex"}

\* the connections created for cache key k on which $disconnect() has not
\* been called
LiveConnections(k) ==
    { h \in DOMAIN builtFor : builtFor[h].key = k /\ h \notin DOMAIN disconnects }

\* C30: at most one live connection per key.  In every reachable state of the
\* pool, whatever the interleaving of acquisitions, idle sweeps and shutdown,
\* at most one connection created for a cache key has not had its close
\* initiated.
C30_OneLivePerKey ==
    \A h1, h2 \in DOMAIN builtFor :
        (builtFor[h1].key = builtFor[h2].key
            /\ h1 \notin DOMAIN disconnects /\ h2 \notin DOMAIN disconnects)
        => h1 = h2

\* the handles whose close was initiated by an idle sweep and has failed
FailedSweepCloses ==
    { h \in DOMAIN disconnects : disconnects[h] = "failed" /\ h \notin destroy.closes }

\* C31: eviction never crashes the sweep.  A close that fails after a sweep
\* changes nothing but its own record: the entry stays removed, every idle
\* entry of a pass is removed and has its close initiated whatever closes
\* failed before, and the interval stays set until onModuleDestroy, so later
\* sweeps still run.
C31_SweepRobust ==
    /\ \A h \in FailedSweepCloses : h \notin Handles(clients)
    /\ last.op = "cleanupIdleConnections"
       => \A key \in DOMAIN last.before.clients :
             isIdle(now, last.before.clientLastUsed[key])
             => /\ key \notin DOMAIN clients
                /\ last.before.clients[key] \in DOMAIN disconnects
    /\ destroy.pc = "none" => cleanupInterval = "set"
    /\ (last.op = "$disconnect" /\ last.handle \in FailedSweepCloses)
       => \A h \in DOMAIN disconnects \ {last.handle} :
             h \notin Handles(clients) \/ h \in destroy.closes

C31_Witness ==
    /\ last.op = "cleanupIdleConnections"
    /\ FailedSweepCloses # {}
    /\ \E h \in DOMAIN disconnects : disconnects[h] = "done"
    /\ cleanupInterval = "set"

\* C32: registry startup is fail-fast.  An onModuleInit that creates the
\* registry client while the store cannot be reached throws the 500
\* InternalServerErrorException 'Failed to initialize tenant registry' and
\* completes normally only when the connection succeeded; and a getTenantInfo
\* call that is not served from the cache answers null only with the client
\* created and the store answering.
C32_FailFastStartup ==
    /\ (last.op = "onModuleInit" /\ primaryDbClient = "set")
       => /\ ~storeUp => last.res = InitError /\ last.res.status = 500
          /\ storeUp => last.res = Void
    /\ (last.op = "getTenantInfo" /\ ~last.hit /\ last.res = Null)
       => primaryDbClient = "set" /\ storeUp

C32_Witness ==
    /\ last.op = "onModuleInit" /\ primaryDbClient = "set" /\ ~storeUp
    /\ last.res = InitError

\* C33: extractSubdomain.  For every host string the result is null when the
\* host is empty or its host name (what precedes the first ':') has fewer than
\* three dot-separated labels; otherwise it is the first label; and a host
\* without port gives the same result with a port appended.
C33_ExtractSubdomain ==
    ev.op = "extractSubdomain"
    => /\ ev.res = IF ev.host = << >> \/ LabelCount(ev.host) < 3
                   THEN Nil ELSE FirstLabel(ev.host)
       /\ (ev.host # << >> /\ ":" \notin { ev.host[i] : i \in 1..Len(ev.host) })
          => ev.resWithPort = ev.res

C33_Witness ==
    /\ ev.op = "extractSubdomain"
    /\ ev.host = << "acme", ".", "cloud", ".", "acme" >>
    /\ ev.res = "acme" /\ ev.resWithPort = "acme"

\* the positions of a call in the steps of the current execution of canActivate
StepsAt(name) == { i \in 1..Len(grd.o.steps) : grd.o.steps[i] = name }

\* C36: no registry query before authentication.  In an execution of
\* canActivate getTenantInfo is called at most once, after the token was
\* decoded and both the access token and the cookie token were verified; it is
\* called, and the store queried, only for a request on a regular handler whose
\* bearer token is not of type 'onboarding' and whose two credentials verify.
C36_NoLookupBeforeAuth ==
    /\ Cardinality(StepsAt("getTenantInfo")) <= 1
    /\ \A i \in StepsAt("getTenantInfo") :
          /\ \E d \in StepsAt("decode") : d < i
          /\ \E a \in StepsAt("verify") : a < i
          /\ \E b \in StepsAt("verifyRefresh") : b < i
    /\ (grd.pc # "idle" /\ ~(RegularHandler /\ ValidCredentials))
       => StepsAt("getTenantInfo") = {}
    /\ \A c \in CallSlots :
          call[c].pc = "querying"
          => /\ c = 1 /\ grd.pc = "awaiting"
             /\ RegularHandler /\ ValidCredentials
             /\ StepsAt("getTenantInfo") # {}
    /\ last.op \in {"findFirst", "getTenantInfo"}
       => /\ grd.pc \in {"awaiting", "done"}
          /\ RegularHandler /\ ValidCredentials
          /\ StepsAt("getTenantInfo") # {}
          /\ last.queries <= 1

C36_Witness ==
    /\ Decided /\ RegularHandler /\ ValidCredentials
    /\ grd.o.steps = << "decode", "verify", "cookie", "verifyRefresh", "resolve",
                        "getTenantInfo" >>
    /\ last.op = "getTenantInfo" /\ last.queries = 1
    /\ grd.o.out = "true"

\* C37: no subject on failure.  When canActivate throws, request.user is what
\* it was before the call (a request arrives without user); request.user
\* is set by the guard only on executions that return true.
C37_NoSubjectOnFailure ==
    (Decided /\ grd.o.out = "throw") => grd.o.user = Null

\* C38: full TTL per insertion.  Under any interleaving of getTenantInfo,
\* clearTenantCache, clearAllCaches and timer callbacks, the latest insertion
\* under a key that no invalidation removed is in the cache under that key (its
\* id and its subdomain alike) while now is before its insertion time + TTL; in
\* particular the timer of an earlier insertion does not remove it.
C38_FullTTL ==
    \A k \in DOMAIN lastIns :
        Window(k) # Null
        => Cached(k) /\ tenantConfigCache[k] = Window(k).obj

\* C39: no closed handle is handed out.  Under any interleaving of
\* acquisitions, idle sweeps and onModuleDestroy, a handle that getDbClient
\* returns is not one on which $disconnect() has been called by the idle sweep
\* or by onModuleDestroy.
C39_NoClosedHandle ==
    (last.op = "getDbClient" /\ ~IsError(last.res))
    => last.res.handle \notin DOMAIN disconnects

\* intercept has returned or thrown; the tenant identifier of the headers
Intercepted == http.pc \in {"done", "handler"}
HeaderIdentifier ==
    IF HeaderSet(http.request.xTenantId) THEN http.request.xTenantId
    ELSE IF HeaderSet(http.request.xSubdomain) THEN http.request.xSubdomain
    ELSE Nil
InterceptUnauthorized ==
    /\ http.o.out = "throw"
    /\ http.o.error.error = "UnauthorizedException" /\ http.o.error.status = 401

C35_GuardContextAgree ==
    (http.pc = "handler" /\ http.guarded /\ RegularHandler /\ tenantInfo # Null)
    => /\ tenantInfo.id \in TenantsNamed(grd.o.identifier)
       /\ StepsAt("getTenantInfo") # {}

====
